---------------------------- MODULE Spec2Model ----------------------------
(***************************************************************************)
(* Model of the LLM-response recovery pipeline of the IntHR applications:  *)
(* the ATS agents (resume parsing, job matching, decision feedback), their *)
(* JSON cleaning heuristics and default records, and the batched question  *)
(* generation of the online assessment.                                    *)
(*                                                                         *)
(* Text is a TLA+ string, read as the sequence of its characters.  Indices *)
(* follow Python: positions are 0-based, s[a:b] is Slice(s, a, b).  The    *)
(* parser of TLA+ rejects a backquote inside a string, so the backquote of *)
(* a markdown fence is written ~ in every text of this module; like the    *)
(* backquote, ~ is neither whitespace, a word character nor JSON syntax.   *)
(* Scans over a whole text are written with sets of positions instead of   *)
(* one recursion step per character, which keeps the evaluation shallow.   *)
(***************************************************************************)
EXTENDS Integers, Sequences, FiniteSets, TLC

(***************************************************************************)
(* Python str primitives                                                   *)
(***************************************************************************)
At(s, i) == IF i >= 0 /\ i < Len(s) THEN SubSeq(s, i + 1, i + 1) ELSE ""

Max2(a, b) == IF a >= b THEN a ELSE b

Min2(a, b) == IF a <= b THEN a ELSE b

Slice(s, a, b) == SubSeq(s, Max2(a, 0) + 1, Min2(b, Len(s)))

From(s, a) == Slice(s, a, Len(s))

DQ == "\""

SQ == "'"

WS == {" ", "\n", "\t", "\r"}

Digits == {"0", "1", "2", "3", "4", "5", "6", "7", "8", "9"}

Letters == {"a", "b", "c", "d", "e", "f", "g", "h", "i", "j", "k", "l", "m",
            "n", "o", "p", "q", "r", "s", "t", "u", "v", "w", "x", "y", "z",
            "A", "B", "C", "D", "E", "F", "G", "H", "I", "J", "K", "L", "M",
            "N", "O", "P", "Q", "R", "S", "T", "U", "V", "W", "X", "Y", "Z"}

WordCh == Letters \cup Digits \cup {"_"}

StartsWith(s, p) == Slice(s, 0, Len(p)) = p

EndsWith(s, p) == Len(s) >= Len(p) /\ From(s, Len(s) - Len(p)) = p

RECURSIVE SkipWs(_, _)
SkipWs(s, i) == IF i < Len(s) /\ At(s, i) \in WS THEN SkipWs(s, i + 1) ELSE i

RECURSIVE SkipWsBack(_, _)
SkipWsBack(s, n) == IF n > 0 /\ At(s, n - 1) \in WS THEN SkipWsBack(s, n - 1) ELSE n

RECURSIVE SkipWord(_, _)
SkipWord(s, i) == IF i < Len(s) /\ At(s, i) \in WordCh THEN SkipWord(s, i + 1) ELSE i

RECURSIVE SkipDigits(_, _)
SkipDigits(s, i) == IF i < Len(s) /\ At(s, i) \in Digits THEN SkipDigits(s, i + 1) ELSE i

LStrip(s) == From(s, SkipWs(s, 0))

RStrip(s) == Slice(s, 0, SkipWsBack(s, Len(s)))

Strip(s) == RStrip(LStrip(s))

\* The least / greatest element of a set of positions, -1 when it is empty.
MinPos(S) == IF S = {} THEN -1 ELSE CHOOSE j \in S : \A k \in S : j <= k

MaxPos(S) == IF S = {} THEN -1 ELSE CHOOSE j \in S : \A k \in S : j >= k

\* s.find(c, i) for a one-character c: the first index >= i holding c, else -1.
FindCh(s, c, i) == MinPos({j \in Max2(i, 0)..(Len(s) - 1) : At(s, j) = c})

\* s.rfind(c, 0, n): the last index < n holding c, else -1.
RFindCh(s, c, n) == MaxPos({j \in 0..(Min2(n, Len(s)) - 1) : At(s, j) = c})

\* s.find(p, i) for a string p.
FindStr(s, p, i) ==
    MinPos({j \in Max2(i, 0)..(Len(s) - Len(p)) : Slice(s, j, j + Len(p)) = p})

Contains(s, p) == FindStr(s, p, 0) >= 0

\* s.count(c, 0, n)
CountCh(s, c, n) == Cardinality({j \in 0..(Min2(n, Len(s)) - 1) : At(s, j) = c})

\* s.replace(a, b) for one-character a and b.
RECURSIVE ReplaceCh(_, _, _)
ReplaceCh(s, a, b) ==
    IF Len(s) <= 1 THEN (IF s = a THEN b ELSE s)
    ELSE ReplaceCh(Slice(s, 0, Len(s) \div 2), a, b)
         \o ReplaceCh(From(s, Len(s) \div 2), a, b)

\* s.split('\n'): always at least one element.
RECURSIVE SplitLines(_)
SplitLines(s) ==
    LET p == FindCh(s, "\n", 0)
    IN  IF p < 0 THEN <<s>> ELSE <<Slice(s, 0, p)>> \o SplitLines(From(s, p + 1))

\* '\n'.join(lines)
RECURSIVE JoinLines(_)
JoinLines(lines) ==
    IF Len(lines) = 0 THEN ""
    ELSE IF Len(lines) = 1 THEN lines[1]
    ELSE lines[1] \o "\n" \o JoinLines(Tail(lines))

\* int(digits) for a non-empty run of decimal digits.
DigitVal(c) ==
    CASE c = "0" -> 0 [] c = "1" -> 1 [] c = "2" -> 2 [] c = "3" -> 3
      [] c = "4" -> 4 [] c = "5" -> 5 [] c = "6" -> 6 [] c = "7" -> 7
      [] c = "8" -> 8 [] c = "9" -> 9

RECURSIVE IntOf(_)
IntOf(d) ==
    IF Len(d) = 0 THEN 0
    ELSE IntOf(Slice(d, 0, Len(d) - 1)) * 10 + DigitVal(At(d, Len(d) - 1))


(***************************************************************************)
(* json.loads (CPython 3.11 json.decoder / json.scanner), strict mode.     *)
(* A value is a record tagged by t: "str" (s), "num" (n), "lit" (s),       *)
(* "arr" (a: sequence of values), "obj" (m: sequence of [k, v] with        *)
(* distinct keys in insertion order, a repeated key keeping its last       *)
(* value).  The enumerated texts hold no backslash, '.', or exponent, so   *)
(* string escapes and non-integer numbers are left out of the scanner.     *)
(***************************************************************************)
JOk(v, e) == [ok |-> TRUE, val |-> v, end |-> e]

JErr(kind, p) == [ok |-> FALSE, err |-> kind, pos |-> p]

JStr(x) == [t |-> "str", s |-> x]

JNum(x) == [t |-> "num", n |-> x]

JLit(x) == [t |-> "lit", s |-> x]

JArr(x) == [t |-> "arr", a |-> x]

JObj(x) == [t |-> "obj", m |-> x]

CtrlCh == {"\n", "\t", "\r"}

\* dict[key] = value
RECURSIVE DictPut(_, _, _)
DictPut(m, k, v) ==
    IF Len(m) = 0 THEN <<[k |-> k, v |-> v]>>
    ELSE IF m[1].k = k THEN <<[k |-> k, v |-> v]>> \o Tail(m)
    ELSE <<m[1]>> \o DictPut(Tail(m), k, v)

HasKey(o, k) == o.t = "obj" /\ \E i \in 1..Len(o.m) : o.m[i].k = k

Get(o, k) == LET i == CHOOSE j \in 1..Len(o.m) : o.m[j].k = k IN o.m[i].v

\* py_scanstring(s, end): end is the index after the opening quote.
StrTerminator(s, j) ==
    MinPos({n \in j..(Len(s) - 1) : At(s, n) = "\"" \/ At(s, n) \in CtrlCh})

ScanStringTo(s, end, j) ==
    IF j < 0 THEN JErr("Unterminated string starting at", end - 1)
    ELSE IF At(s, j) \in CtrlCh THEN JErr("Invalid control character at", j)
    ELSE JOk(Slice(s, end, j), j + 1)

ScanString(s, end) == ScanStringTo(s, end, StrTerminator(s, end))

\* NUMBER_RE = (-?(?:0|[1-9]\d*)), integer part only; -1 when there is no match.
NumberEndFrom(s, d) ==
    IF d >= Len(s) \/ At(s, d) \notin Digits THEN -1
    ELSE IF At(s, d) = "0" THEN d + 1
    ELSE SkipDigits(s, d)

NumberEnd(s, idx) == NumberEndFrom(s, IF At(s, idx) = "-" THEN idx + 1 ELSE idx)

NumberVal(s, idx, e) ==
    IF At(s, idx) = "-" THEN 0 - IntOf(Slice(s, idx + 1, e)) ELSE IntOf(Slice(s, idx, e))

RECURSIVE ScanOnce(_, _), ObjLoop(_, _, _), ObjColon(_, _, _), ObjValue(_, _, _, _)
RECURSIVE ObjPut(_, _, _, _), ObjNext(_, _, _), ObjNextKey(_, _, _)
RECURSIVE JSONObject(_, _), JSONArray(_, _), ArrLoop(_, _, _), ArrNext(_, _, _)

\* JSONObject(s_and_end): end is the index after '{'.
JSONObjectAt(s, end0, e1) ==
    IF At(s, e1) = "}" /\ At(s, end0) # "\"" THEN JOk(JObj(<<>>), e1 + 1)
    ELSE IF At(s, e1) # "\""
    THEN JErr("Expecting property name enclosed in double quotes", e1)
    ELSE ObjLoop(s, e1 + 1, <<>>)

JSONObject(s, end0) ==
    JSONObjectAt(s, end0, IF At(s, end0) # "\"" THEN SkipWs(s, end0) ELSE end0)

\* One turn of the pair loop of JSONObject: end is the index after the key's
\* opening quote.  The turn runs through the key (ObjLoop, ObjColon), the
\* value (ObjValue, ObjPut) and the delimiter after it (ObjNext, ObjNextKey).
ObjLoop(s, end, pairs) == ObjColon(s, pairs, ScanString(s, end))

ObjColon(s, pairs, key) ==
    IF ~key.ok THEN key
    ELSE ObjValue(s, pairs, key.val,
                  IF At(s, key.end) # ":" THEN SkipWs(s, key.end) ELSE key.end)

ObjValue(s, pairs, k, e2) ==
    IF At(s, e2) # ":" THEN JErr("Expecting ':' delimiter", e2)
    ELSE ObjPut(s, pairs, k, ScanOnce(s, SkipWs(s, e2 + 1)))

ObjPut(s, pairs, k, val) ==
    IF ~val.ok THEN val ELSE ObjNext(s, DictPut(pairs, k, val.val), SkipWs(s, val.end))

ObjNext(s, pairs, e4) ==
    IF At(s, e4) = "}" THEN JOk(JObj(pairs), e4 + 1)
    ELSE IF At(s, e4) # "," THEN JErr("Expecting ',' delimiter", e4)
    ELSE ObjNextKey(s, pairs, SkipWs(s, e4 + 1))

ObjNextKey(s, pairs, e5) ==
    IF At(s, e5) # "\"" THEN JErr("Expecting property name enclosed in double quotes", e5)
    ELSE ObjLoop(s, e5 + 1, pairs)

\* JSONArray(s_and_end): end is the index after '['.
JSONArrayAt(s, e1) ==
    IF At(s, e1) = "]" THEN JOk(JArr(<<>>), e1 + 1) ELSE ArrLoop(s, <<>>, ScanOnce(s, e1))

JSONArray(s, end0) == JSONArrayAt(s, SkipWs(s, end0))

\* One turn of the value loop of JSONArray, val being the value scanned.
ArrLoop(s, items, val) ==
    IF ~val.ok THEN val ELSE ArrNext(s, Append(items, val.val), SkipWs(s, val.end))

ArrNext(s, items, e2) ==
    IF At(s, e2) = "]" THEN JOk(JArr(items), e2 + 1)
    ELSE IF At(s, e2) # "," THEN JErr("Expecting ',' delimiter", e2)
    ELSE ArrLoop(s, items, ScanOnce(s, SkipWs(s, e2 + 1)))

StringValue(r) == IF r.ok THEN JOk(JStr(r.val), r.end) ELSE r

Literal(s, idx, word) == Slice(s, idx, idx + Len(word)) = word

\* The number or constant at idx, e being the end of NUMBER_RE's match.
NumberOrConstant(s, idx, e) ==
    IF e >= 0 THEN JOk(JNum(NumberVal(s, idx, e)), e)
    ELSE IF Literal(s, idx, "NaN") THEN JOk(JLit("NaN"), idx + 3)
    ELSE IF Literal(s, idx, "Infinity") THEN JOk(JLit("Infinity"), idx + 8)
    ELSE IF Literal(s, idx, "-Infinity") THEN JOk(JLit("-Infinity"), idx + 9)
    ELSE JErr("Expecting value", idx)

\* py_make_scanner._scan_once; StopIteration(idx) becomes "Expecting value".
ScanOnceAt(s, idx, c) ==
    IF idx >= Len(s) THEN JErr("Expecting value", idx)
    ELSE IF c = "\"" THEN StringValue(ScanString(s, idx + 1))
    ELSE IF c = "{" THEN JSONObject(s, idx + 1)
    ELSE IF c = "[" THEN JSONArray(s, idx + 1)
    ELSE IF c = "n" /\ Literal(s, idx, "null") THEN JOk(JLit("null"), idx + 4)
    ELSE IF c = "t" /\ Literal(s, idx, "true") THEN JOk(JLit("true"), idx + 4)
    ELSE IF c = "f" /\ Literal(s, idx, "false") THEN JOk(JLit("false"), idx + 5)
    ELSE NumberOrConstant(s, idx, NumberEnd(s, idx))

ScanOnce(s, idx) == ScanOnceAt(s, idx, At(s, idx))

\* JSONDecoder.decode: leading and trailing whitespace allowed, else "Extra data".
DecodeEnd(s, r, end) == IF end # Len(s) THEN JErr("Extra data", end) ELSE r

Decode(s, r) == IF ~r.ok THEN r ELSE DecodeEnd(s, r, SkipWs(s, r.end))

JsonLoads(s) == Decode(s, ScanOnce(s, SkipWs(s, 0)))

IsJson(s) == JsonLoads(s).ok

\* JSONDecodeError.lineno / colno of position pos in doc.
ErrLine(doc, pos) == CountCh(doc, "\n", pos) + 1

ErrCol(doc, pos) ==
    IF ErrLine(doc, pos) = 1 THEN pos + 1 ELSE pos - RFindCh(doc, "\n", pos)


(***************************************************************************)
(* The regular-expression substitutions shared by the cleaning routines.   *)
(* Every pattern here is a fixed chain of character classes, so the        *)
(* leftmost greedy match of re is found by one forward scan.               *)
(***************************************************************************)
\* End (exclusive) of a match of  \s*\w+\s*:  starting at j, or -1; a is
\* the start of the word and b its end.
KeyMatchWord(s, a, b) == IF b > a /\ At(s, SkipWs(s, b)) = ":" THEN SkipWs(s, b) + 1 ELSE -1

KeyMatchFrom(s, a) == KeyMatchWord(s, a, SkipWord(s, a))

KeyMatchEnd(s, j) == KeyMatchFrom(s, SkipWs(s, j))

\* The replacement  \1"\2"\3  for the key found after position j.
QuotedWord(s, j, a, b) ==
    Slice(s, j, a) \o "\"" \o Slice(s, a, b) \o "\"" \o Slice(s, b, SkipWs(s, b) + 1)

QuotedKeyFrom(s, j, a) == QuotedWord(s, j, a, SkipWord(s, a))

QuotedKey(s, j) == QuotedKeyFrom(s, j, SkipWs(s, j))

\* re.sub(r'([{,]\s*)(\w+)(\s*:)', r'\1"\2"\3', s)
RECURSIVE QuoteKeysFrom(_, _), QuoteKeysAt(_, _, _)
QuoteKeysAt(s, i, m) ==
    IF m < 0 THEN From(s, i)
    ELSE Slice(s, i, m + 1) \o QuotedKey(s, m + 1) \o QuoteKeysFrom(s, KeyMatchEnd(s, m + 1))

QuoteKeysFrom(s, i) ==
    QuoteKeysAt(s, i, MinPos({j \in i..(Len(s) - 1) :
                                At(s, j) \in {"{", ","} /\ KeyMatchEnd(s, j + 1) >= 0}))

QuoteKeys(s) == QuoteKeysFrom(s, 0)

\* re.sub(r'(\s*)(\w+)(\s*:)', r'\1"\2"\3', line)
RECURSIVE QuoteLineKeysFrom(_, _), QuoteLineKeysAt(_, _, _)
QuoteLineKeysAt(s, i, m) ==
    IF m < 0 THEN From(s, i)
    ELSE Slice(s, i, m) \o QuotedKey(s, m) \o QuoteLineKeysFrom(s, KeyMatchEnd(s, m))

QuoteLineKeysFrom(s, i) ==
    QuoteLineKeysAt(s, i, MinPos({j \in i..(Len(s) - 1) : KeyMatchEnd(s, j) >= 0}))

QuoteLineKeys(s) == QuoteLineKeysFrom(s, 0)

\* A match of  "\s*\n\s*"  at i: a quote, a whitespace run holding a newline,
\* a quote.  The index of the closing quote, or -1.
QuoteGapTo(s, i, j) ==
    IF At(s, i) = "\"" /\ At(s, j) = "\"" /\ Contains(Slice(s, i + 1, j), "\n")
    THEN j ELSE -1

QuoteGapEnd(s, i) == QuoteGapTo(s, i, SkipWs(s, i + 1))

FirstQuoteGap(s, i) == MinPos({j \in i..(Len(s) - 1) : QuoteGapEnd(s, j) >= 0})

\* re.sub(r'"(\s*)\n(\s*)"', '",\n"', s)
RECURSIVE FixMissingCommasFrom(_, _), FixMissingCommasAt(_, _, _)
FixMissingCommasAt(s, i, m) ==
    IF m < 0 THEN From(s, i)
    ELSE Slice(s, i, m) \o "\",\n\"" \o FixMissingCommasFrom(s, QuoteGapEnd(s, m) + 1)

FixMissingCommasFrom(s, i) == FixMissingCommasAt(s, i, FirstQuoteGap(s, i))

FixMissingCommas(s) == FixMissingCommasFrom(s, 0)

\* re.sub(r'("\s*)\n(\s*")', r'\1,\n\2', s): the comma goes before the last
\* newline n of the run that ends at e, the surrounding whitespace is kept.
RECURSIVE InsertCommasFrom(_, _), InsertCommasAt(_, _, _), InsertCommasIn(_, _, _, _)
InsertCommasIn(s, i, e, n) ==
    Slice(s, i, n) \o ",\n" \o Slice(s, n + 1, e + 1) \o InsertCommasFrom(s, e + 1)

InsertCommasAt(s, i, e) ==
    IF e < 0 THEN From(s, i) ELSE InsertCommasIn(s, i, e, RFindCh(s, "\n", e))

InsertCommasFrom(s, i) == InsertCommasAt(s, i, QuoteGapEnd(s, FirstQuoteGap(s, i)))

InsertCommas(s) == InsertCommasFrom(s, 0)

\* re.sub(r',(\s*[}\]])', r'\1', s)
RECURSIVE FixTrailingCommasFrom(_, _), FixTrailingCommasAt(_, _, _)
FixTrailingCommasAt(s, i, m) ==
    IF m < 0 THEN From(s, i)
    ELSE Slice(s, i, m) \o Slice(s, m + 1, SkipWs(s, m + 1) + 1)
         \o FixTrailingCommasFrom(s, SkipWs(s, m + 1) + 1)

FixTrailingCommasFrom(s, i) ==
    FixTrailingCommasAt(s, i, MinPos({j \in i..(Len(s) - 1) :
        At(s, j) = "," /\ At(s, SkipWs(s, j + 1)) \in {"}", "]"}}))

FixTrailingCommas(s) == FixTrailingCommasFrom(s, 0)

\* re.search(r'({[\s\S]*})', s): from the first '{' to the last '}'.
HasObjectSpan(s) == FindCh(s, "{", 0) >= 0 /\ RFindCh(s, "}", Len(s)) > FindCh(s, "{", 0)

ObjectSpan(s) == Slice(s, FindCh(s, "{", 0), RFindCh(s, "}", Len(s)) + 1)

\* s.replace(old, new) for a non-empty old.
RECURSIVE ReplaceStr(_, _, _)
ReplaceStr(s, old, new) ==
    LET p == FindStr(s, old, 0)
    IN  IF p < 0 THEN s
        ELSE Slice(s, 0, p) \o new \o ReplaceStr(From(s, p + Len(old)), old, new)

\* The markdown-fence removal and object extraction that open both
\* clean_json_response routines.
DropFenceStart(t) ==
    IF StartsWith(t, "~~~json") THEN From(t, 7)
    ELSE IF StartsWith(t, "~~~") THEN From(t, 3)
    ELSE t

DropFenceEnd(t) == IF EndsWith(t, "~~~") THEN Slice(t, 0, Len(t) - 3) ELSE t

ExtractObject(t) == IF HasObjectSpan(t) THEN ObjectSpan(t) ELSE t

StripFence(response_text) ==
    ExtractObject(DropFenceEnd(DropFenceStart(Strip(response_text))))

\* The "basic" substitutions, in source order.
BasicFixes(text) ==
    FixTrailingCommas(FixMissingCommas(ReplaceCh(QuoteKeys(text), SQ, DQ)))


(***************************************************************************)
(* DecisionFeedbackAgent.clean_json_response                               *)
(***************************************************************************)
\* lines[line_no - 1] = problem_line[:col_no - 1] + ch + problem_line[col_no - 1:]
\* under the two range guards of the source; the text is unchanged otherwise.
InsertInLines(text, lines, line_no, col_no, ch) ==
    IF 0 < line_no /\ line_no <= Len(lines)
       /\ 0 < col_no /\ col_no <= Len(lines[line_no]) + 1
    THEN JoinLines([lines EXCEPT ![line_no] =
             Slice(lines[line_no], 0, col_no - 1) \o ch \o From(lines[line_no], col_no - 1)])
    ELSE text

InsertAtLineCol(text, line_no, col_no, ch) ==
    InsertInLines(text, SplitLines(text), line_no, col_no, ch)

\* Step 3: one position-directed patch chosen by the message of the parse
\* error e2 of the text after the basic fixes.
StructuralErrFix(text, e2) ==
    IF e2.ok \/ e2.err \notin {"Unterminated string starting at", "Expecting ',' delimiter"}
    THEN text
    ELSE InsertAtLineCol(text, ErrLine(text, e2.pos), ErrCol(text, e2.pos),
                         IF e2.err = "Unterminated string starting at" THEN DQ ELSE ",")

EndsWithAny(s, cs) == Len(s) > 0 /\ At(s, Len(s) - 1) \in cs

IsQuoted(key_part) == StartsWith(key_part, DQ) /\ EndsWith(key_part, DQ)

\* Step 4, the body of the loop for the line at (1-based) index i: the
\* key of the line is quoted, then a comma is appended when the next line
\* opens a pair and this one does not end in a delimiter or a bracket.
KeyedLine(line) ==
    IF Contains(line, ":") /\ ~IsQuoted(Strip(Slice(line, 0, FindCh(line, ":", 0))))
    THEN QuoteLineKeys(line) ELSE line

OpensPair(next_line) == Contains(next_line, ":") \/ StartsWith(next_line, DQ)

WithComma(lines, i, keyed) ==
    IF i < Len(lines) /\ OpensPair(Strip(lines[i + 1]))
       /\ ~EndsWithAny(Strip(keyed), {",", "{", "[", "}", "]"})
    THEN RStrip(keyed) \o ","
    ELSE keyed

RepairedLine(lines, i) == WithComma(lines, i, KeyedLine(lines[i]))

RECURSIVE RepairLinesFrom(_, _)
RepairLinesFrom(lines, i) ==
    IF i > Len(lines) THEN <<>>
    ELSE IF Strip(lines[i]) = "" THEN RepairLinesFrom(lines, i + 1)
    ELSE <<RepairedLine(lines, i)>> \o RepairLinesFrom(lines, i + 1)

StructuralLineRepair(text) == JoinLines(RepairLinesFrom(SplitLines(text), 1))

\* re.search(r'("hiring_manager_notes"\s*:\s*{[^}]*})', s): [start, end) or
\* <<-1, -1>>; p is a place of the key, q of the colon, r of the brace.
RECURSIVE HiringNotesSpan(_, _), HiringNotesAt(_, _), HiringNotesColon(_, _, _)
RECURSIVE HiringNotesBrace(_, _, _, _), HiringNotesClose(_, _, _)
HiringNotesClose(s, p, e) == IF e >= 0 THEN <<p, e + 1>> ELSE HiringNotesSpan(s, p + 1)

HiringNotesBrace(s, p, q, r) ==
    IF At(s, q) = ":" /\ At(s, r) = "{" THEN HiringNotesClose(s, p, FindCh(s, "}", r + 1))
    ELSE HiringNotesSpan(s, p + 1)

HiringNotesColon(s, p, q) == HiringNotesBrace(s, p, q, SkipWs(s, q + 1))

HiringNotesAt(s, p) ==
    IF p < 0 THEN <<-1, -1>> ELSE HiringNotesColon(s, p, SkipWs(s, p + 22))

HiringNotesSpan(s, from) == HiringNotesAt(s, FindStr(s, "\"hiring_manager_notes\"", from))

DelimiterLine == 26

DelimiterColumn == 32

FirstJson(a, b) == IF IsJson(a) THEN a ELSE b

\* The second half of fix_decision_delimiter_error: commas inside the
\* hiring_manager_notes object.
FixNotesSection(json_str, section) ==
    FirstJson(ReplaceStr(json_str, section, InsertCommas(section)), json_str)

FixNotesSpan(json_str, sp) ==
    IF sp[1] < 0 THEN json_str ELSE FixNotesSection(json_str, Slice(json_str, sp[1], sp[2]))

FixHiringNotes(json_str) == FixNotesSpan(json_str, HiringNotesSpan(json_str, 0))

\* The first half: a comma inserted at column 32 of line 26.
FixDelimiterLine(json_str, lines) ==
    IF Len(lines) >= DelimiterLine /\ Len(lines[DelimiterLine]) >= DelimiterColumn
    THEN JoinLines([lines EXCEPT ![DelimiterLine] =
             Slice(lines[DelimiterLine], 0, DelimiterColumn) \o ","
             \o From(lines[DelimiterLine], DelimiterColumn)])
    ELSE json_str

FixDelimiterTry(json_str, fixed_json) ==
    IF fixed_json # json_str /\ IsJson(fixed_json) THEN fixed_json
    ELSE FixHiringNotes(json_str)

fix_decision_delimiter_error(json_str) ==
    FixDelimiterTry(json_str, FixDelimiterLine(json_str, SplitLines(json_str)))

\* DecisionFeedbackAgent.clean_json_response: the text after each step is
\* returned as soon as it parses; after the last step the text of step 4
\* is returned as it is.
DecisionCleanFinal(c3, c4) == IF IsJson(c4) THEN c4 ELSE c3

DecisionCleanRepaired(c3) ==
    IF IsJson(c3) THEN c3 ELSE DecisionCleanFinal(c3, fix_decision_delimiter_error(c3))

DecisionCleanStructural(c1, e2) ==
    IF e2.ok THEN c1
    ELSE DecisionCleanRepaired(StructuralLineRepair(StructuralErrFix(c1, e2)))

DecisionCleanStripped(c0) ==
    IF IsJson(c0) THEN c0
    ELSE DecisionCleanStructural(BasicFixes(c0), JsonLoads(BasicFixes(c0)))

DecisionClean(response_text) == DecisionCleanStripped(StripFence(response_text))


(***************************************************************************)
(* JobMatchingAgent.clean_json_response and extract_valid_json_scores      *)
(***************************************************************************)
\* str(n) for an integer n >= 0.
RECURSIVE IntToStr(_)
IntToStr(n) ==
    LET d == <<"0", "1", "2", "3", "4", "5", "6", "7", "8", "9">>[(n % 10) + 1]
    IN  IF n < 10 THEN d ELSE IntToStr(n \div 10) \o d

\* The end of a match of  key\s*:\s*  at j followed by at least one digit,
\* or -1: the prefix shared by the score patterns.
LabelledNumberTo(s, c, d) == IF At(s, c) = ":" /\ At(s, d) \in Digits THEN d ELSE -1

LabelledNumberFrom(s, c) == LabelledNumberTo(s, c, SkipWs(s, c + 1))

LabelledNumberAt(s, j, key) ==
    IF Slice(s, j, j + Len(key)) = key THEN LabelledNumberFrom(s, SkipWs(s, j + Len(key)))
    ELSE -1

DigitsAt(s, d) == IF d < 0 THEN "" ELSE Slice(s, d, SkipDigits(s, d))

MatchScoreKey == "\"match_score\""

\* re.search(r'"match_score"\s*:\s*(\d+)', s): the digits of group 1, or ""
\* when the pattern is found nowhere.
SearchMatchScore(s) ==
    DigitsAt(s, LabelledNumberAt(s,
        MinPos({j \in 0..(Len(s) - 1) : LabelledNumberAt(s, j, MatchScoreKey) >= 0}),
        MatchScoreKey))

\* The start of the digits of  "<name>"\s*:\s*{\s*"score"\s*:\s*(\d+)  matched
\* at j, or -1; c is the place of the colon and b of the brace.
SectionScoreBrace(s, c, b) ==
    IF At(s, c) = ":" /\ At(s, b) = "{"
    THEN LabelledNumberAt(s, SkipWs(s, b + 1), "\"score\"") ELSE -1

SectionScoreColon(s, c) == SectionScoreBrace(s, c, SkipWs(s, c + 1))

SectionScoreKey(s, j, key) ==
    IF Slice(s, j, j + Len(key)) = key THEN SectionScoreColon(s, SkipWs(s, j + Len(key)))
    ELSE -1

SectionScoreAt(s, j, name) == SectionScoreKey(s, j, DQ \o name \o DQ)

\* re.search(r'"<name>"\s*:\s*{\s*"score"\s*:\s*(\d+)', s): group 1 or "".
SearchSectionScore(s, name) ==
    DigitsAt(s, SectionScoreAt(s,
        MinPos({j \in 0..(Len(s) - 1) : SectionScoreAt(s, j, name) >= 0}), name))

\* json.dumps of one analysis section.
DumpSection(score, matches, gaps) ==
    "{\"score\": " \o IntToStr(score) \o ", \"matches\": " \o matches
    \o ", \"gaps\": " \o gaps \o "}"

\* json.dumps(minimal_json): the record rebuilt around the salvaged scores.
MinimalJson(score, skills, experience, education) ==
    "{\"match_score\": " \o IntToStr(score) \o ", \"analysis\": {\"skills\": "
    \o DumpSection(skills, "[\"Automatically extracted skill match\"]",
                   "[\"Consider checking actual skill gaps\"]")
    \o ", \"experience\": "
    \o DumpSection(experience, "[\"Automatically extracted experience match\"]",
                   "[\"Consider checking actual experience gaps\"]")
    \o ", \"education\": "
    \o DumpSection(education, "[\"Automatically extracted education match\"]", "[]")
    \o ", \"additional\": "
    \o DumpSection(75, "[\"Automatically generated additional match\"]", "[]")
    \o "}, \"recommendation\": \"This is an automatically reconstructed result due to parsing issues with the original response.\""
    \o ", \"key_strengths\": [\"Strength information was not fully recoverable\", \"Consider re-running analysis for detailed strengths\"]"
    \o ", \"areas_for_consideration\": [\"Areas for consideration were not fully recoverable\", \"Consider re-running analysis for detailed considerations\"]}"

\* json.dumps(default_json): the record returned when nothing was salvaged.
DefaultJson ==
    "{\"match_score\": 80, \"analysis\": {\"skills\": "
    \o DumpSection(80, "[\"Default skill match\"]", "[\"Default skill gap\"]")
    \o ", \"experience\": "
    \o DumpSection(75, "[\"Default experience match\"]", "[\"Default experience gap\"]")
    \o ", \"education\": "
    \o DumpSection(85, "[\"Default education match\"]", "[]")
    \o ", \"additional\": "
    \o DumpSection(70, "[\"Default additional match\"]", "[\"Default additional gap\"]")
    \o "}, \"recommendation\": \"This is a default result due to parsing issues. Consider re-running the analysis.\""
    \o ", \"key_strengths\": [\"Unable to extract actual strengths due to parsing issues\"]"
    \o ", \"areas_for_consideration\": [\"Unable to extract actual considerations due to parsing issues\"]}"

\* The body of the line loop of the "aggressive" cleaning for lines[i],
\* whose stripped text is not empty: the key is quoted, then a comma is
\* appended unless the line is the last or ends in a delimiter or a bracket.
AggressiveKeyed(line, c) ==
    IF c >= 0 /\ ~StartsWith(line, DQ)
    THEN DQ \o Strip(Slice(line, 0, c)) \o "\": " \o Strip(From(line, c + 1))
    ELSE line

AggressiveComma(lines, i, keyed) ==
    IF i < Len(lines) /\ ~EndsWithAny(keyed, {",", "{", "[", "}", "]"})
    THEN keyed \o "," ELSE keyed

AggressiveStripped(lines, i, line) ==
    AggressiveComma(lines, i, AggressiveKeyed(line, FindCh(line, ":", 0)))

AggressiveLine(lines, i) == AggressiveStripped(lines, i, Strip(lines[i]))

RECURSIVE AggressiveLinesFrom(_, _)
AggressiveLinesFrom(lines, i) ==
    IF i > Len(lines) THEN <<>>
    ELSE IF Strip(lines[i]) = "" THEN AggressiveLinesFrom(lines, i + 1)
    ELSE <<AggressiveLine(lines, i)>> \o AggressiveLinesFrom(lines, i + 1)

AggressiveClean(text) == JoinLines(AggressiveLinesFrom(SplitLines(text), 1))

\* score_match.group(1) if it matched, else the salvaged match score.
ScoreOr(digits, score) == IF digits = "" THEN score ELSE IntOf(digits)

\* The salvage of the "advanced" block: a record rebuilt from the scores
\* found in the text; a section score that is not found takes the value of
\* the match score that was found.
SalvageWith(text, score) ==
    MinimalJson(score, ScoreOr(SearchSectionScore(text, "skills"), score),
                ScoreOr(SearchSectionScore(text, "experience"), score),
                ScoreOr(SearchSectionScore(text, "education"), score))

Salvage(text) == SalvageWith(text, IntOf(SearchMatchScore(text)))

Cleaned(stage, text) == [stage |-> stage, text |-> text]

\* The aggressive cleaning returned without the final parse: the fault the
\* property of the returned text has to detect.
MatchCleanAggressiveUnparsed(text) == Cleaned("aggressive", text)

\* JobMatchingAgent.clean_json_response with the stage that produced the
\* result.  The text is parsed as received; when that fails it is stripped,
\* passed through the basic fixes and only then parsed again; then come the
\* salvage, the aggressive cleaning and the default record.
MatchCleanAggressive(text) ==
    IF IsJson(text) THEN Cleaned("aggressive", text) ELSE Cleaned("default_json", DefaultJson)

MatchCleanFixed(fixed) ==
    IF IsJson(fixed) THEN Cleaned("basic_fixes", fixed)
    ELSE IF SearchMatchScore(fixed) # "" THEN Cleaned("salvaged", Salvage(fixed))
    ELSE MatchCleanAggressive(AggressiveClean(fixed))

MatchCleanResult(response_text) ==
    IF IsJson(response_text) THEN Cleaned("as_received", response_text)
    ELSE MatchCleanFixed(BasicFixes(StripFence(response_text)))

MatchCleanStage(response_text) == MatchCleanResult(response_text).stage

MatchClean(response_text) == MatchCleanResult(response_text).text

DefaultMatchScore == 80

DefaultSkillsScore == 80

DefaultExperienceScore == 75

DefaultEducationScore == 85

\* JobMatchingAgent.extract_valid_json_scores: the scores found in the raw
\* completion, each with a default of its own.
extract_valid_json_scores(json_text) ==
    [match_score |-> ScoreOr(SearchMatchScore(json_text), DefaultMatchScore),
     skills_score |-> ScoreOr(SearchSectionScore(json_text, "skills"), DefaultSkillsScore),
     experience_score |->
         ScoreOr(SearchSectionScore(json_text, "experience"), DefaultExperienceScore),
     education_score |->
         ScoreOr(SearchSectionScore(json_text, "education"), DefaultEducationScore)]


(***************************************************************************)
(* pydantic (v2) validation of a parsed JSON value against a field type.   *)
(* A validation yields [ok, val]; a failed one stands for ValidationError. *)
(* Numbers are integers and numeric strings are plain digit strings, as in *)
(* every text enumerated below.                                            *)
(***************************************************************************)
Valid(v) == [ok |-> TRUE, val |-> v]

Invalid == [ok |-> FALSE, val |-> <<>>]

IsIntText(s) ==
    LET start == IF At(s, 0) = "-" THEN 1 ELSE 0
    IN  Len(s) > start /\ SkipDigits(s, start) = Len(s)

ParseInt(s) == IF At(s, 0) = "-" THEN 0 - IntOf(From(s, 1)) ELSE IntOf(s)

\* str: only a string is accepted.
StrField(v) == IF v.t = "str" THEN Valid(v.s) ELSE Invalid

\* int: an integer, a string of digits or a boolean is accepted.
IntField(v) ==
    IF v.t = "num" THEN Valid(v.n)
    ELSE IF v.t = "str" /\ IsIntText(v.s) THEN Valid(ParseInt(v.s))
    ELSE IF v.t = "lit" /\ v.s \in {"true", "false"}
    THEN Valid(IF v.s = "true" THEN 1 ELSE 0)
    ELSE Invalid

\* List[str]: an array all of whose elements are strings.
StrListField(v) ==
    IF v.t = "arr" /\ \A i \in 1..Len(v.a) : v.a[i].t = "str"
    THEN Valid([i \in 1..Len(v.a) |-> v.a[i].s])
    ELSE Invalid

\* A field of a model built from the mapping raw: validated when the key is
\* supplied, the declared default (which pydantic does not validate) when
\* it is not.
Field(raw, key, T(_), default) ==
    IF HasKey(raw, key) THEN T(Get(raw, key)) ELSE Valid(default)


(***************************************************************************)
(* models/decision_models.py                                               *)
(***************************************************************************)
\* A validator that stores what it is given: the fault the range property
\* of the returned records has to detect.
validate_confidence_unclamped(v) == v

validate_confidence(v) == Max2(0, Min2(100, v))

\* A DecisionDetails default outside the validator range: the fault the
\* property of the default builders has to detect.
DecisionDetailsOutOfRange ==
    [status |-> "HOLD", confidence_score |-> 130, interview_stage |-> "SCREENING"]

\* A DecisionDetails default that proceeds: the fault the property of the
\* fallback decision has to detect.
DecisionDetailsProceeding ==
    [status |-> "PROCEED", confidence_score |-> 30, interview_stage |-> "SCREENING"]

DecisionDetailsDefault ==
    [status |-> "HOLD", confidence_score |-> 30, interview_stage |-> "SCREENING"]

DecisionDetails(v) ==
    LET status == Field(v, "status", StrField, DecisionDetailsDefault.status)
        score == Field(v, "confidence_score", IntField,
                       DecisionDetailsDefault.confidence_score)
        stage == Field(v, "interview_stage", StrField,
                       DecisionDetailsDefault.interview_stage)
    IN  IF v.t = "obj" /\ status.ok /\ score.ok /\ stage.ok
        THEN Valid([status |-> status.val,
                    confidence_score |-> IF HasKey(v, "confidence_score")
                                         THEN validate_confidence(score.val)
                                         ELSE score.val,
                    interview_stage |-> stage.val])
        ELSE Invalid

RationaleDefault ==
    [key_strengths |-> <<"Pending resume analysis">>,
     concerns |-> <<"Resume analysis not yet completed">>,
     risk_factors |-> <<"Unable to assess risk factors until analysis is complete">>]

RationaleDetails(v) ==
    LET a == Field(v, "key_strengths", StrListField, RationaleDefault.key_strengths)
        b == Field(v, "concerns", StrListField, RationaleDefault.concerns)
        c == Field(v, "risk_factors", StrListField, RationaleDefault.risk_factors)
    IN  IF v.t = "obj" /\ a.ok /\ b.ok /\ c.ok
        THEN Valid([key_strengths |-> a.val, concerns |-> b.val, risk_factors |-> c.val])
        ELSE Invalid

RecommendationDefault ==
    [interview_focus |->
         <<"Complete resume analysis required before providing interview focus areas">>,
     skill_verification |-> <<"Skills verification pending resume processing">>,
     discussion_points |->
         <<"Discussion points will be generated after resume analysis">>]

RecommendationDetails(v) ==
    LET a == Field(v, "interview_focus", StrListField, RecommendationDefault.interview_focus)
        b == Field(v, "skill_verification", StrListField,
                   RecommendationDefault.skill_verification)
        c == Field(v, "discussion_points", StrListField,
                   RecommendationDefault.discussion_points)
    IN  IF v.t = "obj" /\ a.ok /\ b.ok /\ c.ok
        THEN Valid([interview_focus |-> a.val, skill_verification |-> b.val,
                    discussion_points |-> c.val])
        ELSE Invalid

HiringManagerNotesDefault ==
    [salary_band_fit |-> "Pending assessment",
     growth_trajectory |-> "To be evaluated",
     team_fit_considerations |-> "Awaiting team fit analysis",
     onboarding_requirements |->
         <<"Complete candidate profile required for onboarding assessment">>]

HiringManagerNotes(v) ==
    LET a == Field(v, "salary_band_fit", StrField, HiringManagerNotesDefault.salary_band_fit)
        b == Field(v, "growth_trajectory", StrField,
                   HiringManagerNotesDefault.growth_trajectory)
        c == Field(v, "team_fit_considerations", StrField,
                   HiringManagerNotesDefault.team_fit_considerations)
        d == Field(v, "onboarding_requirements", StrListField,
                   HiringManagerNotesDefault.onboarding_requirements)
    IN  IF v.t = "obj" /\ a.ok /\ b.ok /\ c.ok /\ d.ok
        THEN Valid([salary_band_fit |-> a.val, growth_trajectory |-> b.val,
                    team_fit_considerations |-> c.val, onboarding_requirements |-> d.val])
        ELSE Invalid

NextStepsDefault ==
    [immediate_actions |->
         <<"Upload and process resume", "Add job description", "Run analysis">>,
     required_approvals |-> <<"Initial screening pending">>,
     timeline_recommendation |-> "Analysis required before timeline can be determined"]

NextStepsDetails(v) ==
    LET a == Field(v, "immediate_actions", StrListField, NextStepsDefault.immediate_actions)
        b == Field(v, "required_approvals", StrListField, NextStepsDefault.required_approvals)
        c == Field(v, "timeline_recommendation", StrField,
                   NextStepsDefault.timeline_recommendation)
    IN  IF v.t = "obj" /\ a.ok /\ b.ok /\ c.ok
        THEN Valid([immediate_actions |-> a.val, required_approvals |-> b.val,
                    timeline_recommendation |-> c.val])
        ELSE Invalid

\* The DecisionFeedback constructor applied to the items of a mapping raw.
DecisionFeedback(raw) ==
    LET d == Field(raw, "decision", DecisionDetails, DecisionDetailsDefault)
        r == Field(raw, "rationale", RationaleDetails, RationaleDefault)
        c == Field(raw, "recommendations", RecommendationDetails, RecommendationDefault)
        h == Field(raw, "hiring_manager_notes", HiringManagerNotes, HiringManagerNotesDefault)
        n == Field(raw, "next_steps", NextStepsDetails, NextStepsDefault)
    IN  IF d.ok /\ r.ok /\ c.ok /\ h.ok /\ n.ok
        THEN Valid([decision |-> d.val, rationale |-> r.val, recommendations |-> c.val,
                    hiring_manager_notes |-> h.val, next_steps |-> n.val])
        ELSE Invalid

\* DecisionFeedbackAgent.create_default_decision: no decision is passed, so
\* the decision section is the DecisionDetails default.
create_default_decision ==
    [decision |-> DecisionDetailsDefault,
     rationale |->
         [key_strengths |-> <<"Unable to determine due to processing error">>,
          concerns |-> <<"Unable to process candidate data completely">>,
          risk_factors |-> <<"Decision based on incomplete information">>],
     recommendations |->
         [interview_focus |-> <<"Verify resume contents manually">>,
          skill_verification |-> <<"Conduct thorough technical assessment">>,
          discussion_points |-> <<"Discuss areas mentioned in resume">>],
     hiring_manager_notes |->
         [salary_band_fit |-> "Unable to determine",
          growth_trajectory |-> "Unable to determine",
          team_fit_considerations |-> "Manual assessment required",
          onboarding_requirements |-> <<"Standard onboarding process">>],
     next_steps |->
         [immediate_actions |-> <<"Re-run analysis or manually review">>,
          required_approvals |-> <<"Hiring manager approval needed">>,
          timeline_recommendation |->
              "Proceed with caution due to data processing issues"]]


(***************************************************************************)
(* models/job_match_models.py.  A score is kept in hundredths: 92 stands   *)
(* for the float 0.92, so raw / 100.0 of an integer raw is the number raw  *)
(* of hundredths and the range [0.0, 1.0] is 0..100.                       *)
(***************************************************************************)
validate_score(v) == Max2(0, Min2(100, v))

validate_overall_score(v) == Max2(0, Min2(100, v))

\* AnalysisBreakdown(score=..., details=...)
AnalysisBreakdown(score, details) == [score |-> validate_score(score), details |-> details]

InterviewQuestionsDefault == <<"No interview questions generated yet">>

\* The MatchAnalysis constructor applied to the mapping data built by the agent: scores
\* are numbers and details are strings by construction; an insight may be
\* any JSON value and has to be a string.
MatchAnalysis(data) ==
    IF \A i \in 1..Len(data.additional_insights) : data.additional_insights[i].t = "str"
    THEN Valid([overall_match_score |-> validate_overall_score(data.overall_match_score),
                skills_match |->
                    AnalysisBreakdown(data.skills_match.score, data.skills_match.details),
                experience_match |->
                    AnalysisBreakdown(data.experience_match.score,
                                      data.experience_match.details),
                education_match |->
                    AnalysisBreakdown(data.education_match.score,
                                      data.education_match.details),
                additional_insights |->
                    [i \in 1..Len(data.additional_insights) |->
                        data.additional_insights[i].s],
                recommended_interview_questions |-> InterviewQuestionsDefault])
    ELSE Invalid

\* The mapping passed to MatchAnalysis when every section has one score
\* and one detail line.
UniformData(overall, skills, experience, education, details, insight) ==
    [overall_match_score |-> overall,
     skills_match |-> [score |-> skills, details |-> <<details[1]>>],
     experience_match |-> [score |-> experience, details |-> <<details[2]>>],
     education_match |-> [score |-> education, details |-> <<details[3]>>],
     additional_insights |-> <<JStr(insight)>>]

\* JobMatchingAgent.create_default_analysis
create_default_analysis ==
    LET d == "Analysis estimated - Please check results manually"
    IN  MatchAnalysis(UniformData(80, 75, 75, 75, <<d, d, d>>,
            "Analysis was estimated due to processing limitations - Results may not be fully accurate")).val


(***************************************************************************)
(* JobMatchingAgent._transform_api_response and _combine_matches_gaps      *)
(***************************************************************************)
\* bool(v) of a parsed JSON value.
Truthy(v) ==
    CASE v.t = "str" -> v.s # ""
      [] v.t = "num" -> v.n # 0
      [] v.t = "lit" -> v.s \notin {"false", "null"}
      [] v.t = "arr" -> v.a # <<>>
      [] v.t = "obj" -> v.m # <<>>

Iterable(v) == v.t \in {"str", "arr", "obj"}

\* list(v): the characters of a string, the items of a list, the keys of a
\* mapping.
Elements(v) ==
    CASE v.t = "str" -> [i \in 1..Len(v.s) |-> JStr(At(v.s, i - 1))]
      [] v.t = "arr" -> v.a
      [] v.t = "obj" -> [i \in 1..Len(v.m) |-> JStr(v.m[i].k)]

RECURSIVE PyRepr(_), ReprItems(_, _), ReprPairs(_, _)
\* repr(v), as used by str() inside a list or a mapping.
PyRepr(v) ==
    CASE v.t = "str" -> IF Contains(v.s, SQ) THEN DQ \o v.s \o DQ ELSE SQ \o v.s \o SQ
      [] v.t = "num" -> IF v.n < 0 THEN "-" \o IntToStr(0 - v.n) ELSE IntToStr(v.n)
      [] v.t = "lit" -> (CASE v.s = "true" -> "True" [] v.s = "false" -> "False"
                           [] v.s = "null" -> "None" [] v.s = "NaN" -> "nan"
                           [] v.s = "Infinity" -> "inf" [] v.s = "-Infinity" -> "-inf")
      [] v.t = "arr" -> "[" \o ReprItems(v.a, 1) \o "]"
      [] v.t = "obj" -> "{" \o ReprPairs(v.m, 1) \o "}"

ReprItems(a, i) ==
    IF i > Len(a) THEN ""
    ELSE PyRepr(a[i]) \o (IF i < Len(a) THEN ", " ELSE "") \o ReprItems(a, i + 1)

ReprPairs(m, i) ==
    IF i > Len(m) THEN ""
    ELSE PyRepr(JStr(m[i].k)) \o ": " \o PyRepr(m[i].v)
         \o (IF i < Len(m) THEN ", " ELSE "") \o ReprPairs(m, i + 1)

\* str(v), the text an f-string gives for v.
PyStr(v) == IF v.t = "str" THEN v.s ELSE PyRepr(v)

\* [f"{prefix}{x}" for x in v]
Prefixed(prefix, v) == [i \in 1..Len(Elements(v)) |-> prefix \o PyStr(Elements(v)[i])]

\* A truthy value that cannot be iterated makes the comprehension raise.
IterError(v) == Truthy(v) /\ ~Iterable(v)

_combine_matches_gaps(matches, gaps) ==
    LET result == (IF Truthy(matches) THEN <<"Matches:">> \o Prefixed("+ ", matches)
                   ELSE <<>>)
                  \o (IF Truthy(gaps) THEN <<"Gaps:">> \o Prefixed("- ", gaps) ELSE <<>>)
    IN  IF result = <<>> THEN <<"No specific details available">> ELSE result

\* d.get(key, default) on a mapping d.
GetOr(d, key, default) == IF HasKey(d, key) THEN Get(d, key) ELSE default

\* float(v) / 100.0 of match_score, in hundredths, with the fallback of the
\* except clause (ValueError, TypeError).
MatchScoreOf(v) ==
    IF v.t = "num" THEN v.n
    ELSE IF v.t = "str" /\ IsIntText(v.s) THEN ParseInt(v.s)
    ELSE IF v.t = "lit" /\ v.s \in {"true", "false"} THEN (IF v.s = "true" THEN 1 ELSE 0)
    ELSE 80

\* analysis.get(name, {}) with the replacement for a section that is not a
\* mapping.
SectionOf(analysis, name, score) ==
    LET sec == GetOr(analysis, name, JObj(<<>>))
    IN  IF sec.t = "obj" THEN sec
        ELSE JObj(<<[k |-> "score", v |-> JNum(score)], [k |-> "matches", v |-> JArr(<<>>)],
                    [k |-> "gaps", v |-> JArr(<<>>)]>>)

\* section.get("score", 0) / 100.0 is defined for a number (or a boolean)
\* and raises TypeError for anything else; no conversion is attempted.  (The
\* non-finite literals NaN and Infinity occur in no text of the model.)
Divisible(v) == v.t = "num" \/ (v.t = "lit" /\ v.s \in {"true", "false"})

NumberOf(v) == IF v.t = "num" THEN v.n ELSE IF v.s = "true" THEN 1 ELSE 0

SectionError(sec) ==
    \/ ~Divisible(GetOr(sec, "score", JNum(0)))
    \/ IterError(GetOr(sec, "matches", JArr(<<>>)))
    \/ IterError(GetOr(sec, "gaps", JArr(<<>>)))

SectionData(sec) ==
    [score |-> NumberOf(GetOr(sec, "score", JNum(0))),
     details |-> _combine_matches_gaps(GetOr(sec, "matches", JArr(<<>>)),
                                       GetOr(sec, "gaps", JArr(<<>>)))]

\* The additional_insights list assembled from recommendation,
\* key_strengths and areas_for_consideration.
InsightsOf(raw_data) ==
    LET recommendation == GetOr(raw_data, "recommendation", JStr(""))
        strengths == GetOr(raw_data, "key_strengths", JArr(<<>>))
        considerations == GetOr(raw_data, "areas_for_consideration", JArr(<<>>))
        Wrap(lines) == [i \in 1..Len(lines) |-> JStr(lines[i])]
        insights ==
            (IF Truthy(recommendation) THEN <<recommendation>> ELSE <<>>)
            \o (IF Truthy(strengths)
                THEN Wrap(<<"Key Strengths:">> \o Prefixed("+ ", strengths)) ELSE <<>>)
            \o (IF Truthy(considerations)
                THEN Wrap(<<"Areas for Consideration:">> \o Prefixed("- ", considerations))
                ELSE <<>>)
    IN  IF insights = <<>> THEN <<JStr("No additional insights available")>> ELSE insights

\* re.search(r'"match_score":\s*(\d+)', s): group 1 or "".
SearchMatchScoreTight(s) ==
    LET key == "\"match_score\":"
        Digit(j) == SkipWs(s, j + Len(key))
        m == MinPos({j \in 0..(Len(s) - 1) :
                       Slice(s, j, j + Len(key)) = key /\ At(s, Digit(j)) \in Digits})
    IN  IF m < 0 THEN "" ELSE Slice(s, Digit(m), SkipDigits(s, Digit(m)))

\* JobMatchingAgent._transform_api_response.  The field kind names the
\* branch that built the mapping.
_transform_api_response(raw_data) ==
    LET analysis0 == GetOr(raw_data, "analysis", JObj(<<>>))
        analysis == IF analysis0.t = "obj" THEN analysis0 ELSE JObj(<<>>)
        skills == SectionOf(analysis, "skills", 80)
        experience == SectionOf(analysis, "experience", 75)
        education == SectionOf(analysis, "education", 70)
        overall == IF SearchMatchScoreTight(raw_data.s) = "" THEN 80
                   ELSE IntOf(SearchMatchScoreTight(raw_data.s))
        partial == "Partial results extracted"
        failed == "Error occurred. Using estimated values."
        dflt == create_default_analysis
    IN  IF raw_data.t = "str"
        THEN [kind |-> "partial"]
             @@ UniformData(overall, overall, overall, overall, <<partial, partial, partial>>,
                    "Partial analysis completed - some details may be missing")
        ELSE IF raw_data.t # "obj" \/ raw_data.m = <<>>
        THEN [kind |-> "default",
              overall_match_score |-> dflt.overall_match_score,
              skills_match |-> dflt.skills_match,
              experience_match |-> dflt.experience_match,
              education_match |-> dflt.education_match,
              additional_insights |-> <<JStr(dflt.additional_insights[1])>>]
        ELSE IF \/ SectionError(skills) \/ SectionError(experience) \/ SectionError(education)
                \/ IterError(GetOr(raw_data, "key_strengths", JArr(<<>>)))
                \/ IterError(GetOr(raw_data, "areas_for_consideration", JArr(<<>>)))
        THEN [kind |-> "error"]
             @@ UniformData(80, 80, 80, 80, <<failed, failed, failed>>,
                    "Note: Error occurred while processing. Results are estimated.")
        ELSE [kind |-> "transformed",
              overall_match_score |->
                  IF HasKey(raw_data, "match_score")
                  THEN MatchScoreOf(Get(raw_data, "match_score")) ELSE 0,
              skills_match |-> SectionData(skills),
              experience_match |-> SectionData(experience),
              education_match |-> SectionData(education),
              additional_insights |-> InsightsOf(raw_data)]


(***************************************************************************)
(* models/resume_models.py and ResumeParsingAgent.  An Optional[str] is a  *)
(* sequence: <<>> for None, <<x>> for the string x.  The templates         *)
(* enumerated below list no education, experience, skill, project or       *)
(* certification entry, for which the conversion leaves those lists empty. *)
(***************************************************************************)
UpperCase == <<"A", "B", "C", "D", "E", "F", "G", "H", "I", "J", "K", "L", "M",
               "N", "O", "P", "Q", "R", "S", "T", "U", "V", "W", "X", "Y", "Z">>

LowerCase == <<"a", "b", "c", "d", "e", "f", "g", "h", "i", "j", "k", "l", "m",
               "n", "o", "p", "q", "r", "s", "t", "u", "v", "w", "x", "y", "z">>

\* s.lower()
RECURSIVE Lower(_)
Lower(s) ==
    IF Len(s) <= 1
    THEN (IF \E i \in 1..26 : UpperCase[i] = s
          THEN LowerCase[CHOOSE i \in 1..26 : UpperCase[i] = s] ELSE s)
    ELSE Lower(Slice(s, 0, Len(s) \div 2)) \o Lower(From(s, Len(s) \div 2))

\* re.search(label + r'\s*(.*?)(?=\n)', s, re.IGNORECASE) for a lower-case
\* label: <<group 1>>, or <<>> when there is no match.  The greedy \s* runs
\* over line ends, so the group is the rest of the first non-blank line
\* after the label.
LabelValue(s, label) ==
    LET low == Lower(s)
        Group(j) ==
            LET e == j + Len(label)
                w == SkipWs(s, e)
            IN  IF FindCh(s, "\n", w) >= 0 THEN <<Slice(s, w, FindCh(s, "\n", w))>>
                ELSE IF FindCh(s, "\n", e) >= 0 THEN <<"">>
                ELSE <<>>
        m == MinPos({j \in 0..(Len(s) - 1) :
                       Slice(low, j, j + Len(label)) = label /\ Group(j) # <<>>})
    IN  IF m < 0 THEN <<>> ELSE Group(m)

\* re.search(r'SUMMARY:\s*\n(.*?)(?=\n\n|EDUCATION:)', s, re.DOTALL | re.IGNORECASE):
\* <<group 1>> or <<>>.
SummaryValue(s) ==
    LET low == Lower(s)
        Term(from) ==
            MinPos({t \in from..Len(s) :
                      Slice(s, t, t + 2) = "\n\n" \/ Slice(low, t, t + 10) = "education:"})
        Start(j) ==
            MaxPos({n \in (j + 8)..(SkipWs(s, j + 8) - 1) :
                      At(s, n) = "\n" /\ Term(n + 1) >= 0})
        m == MinPos({j \in 0..(Len(s) - 1) :
                       Slice(low, j, j + 8) = "summary:" /\ Start(j) >= 0})
    IN  IF m < 0 THEN <<>> ELSE <<Slice(s, Start(m) + 1, Term(Start(m) + 1))>>

\* The value stored for a field: the stripped group unless there is no
\* match or the group is a placeholder, in which case the initial "" stays.
Extracted(found, placeholder) ==
    IF found # <<>> /\ Strip(found[1]) \notin {placeholder, "Not provided"}
    THEN Strip(found[1]) ELSE ""

\* ResumeParsingAgent.convert_template_to_json
convert_template_to_json(template_output) ==
    [personal_info |->
         [name |-> Extracted(LabelValue(template_output, "name:"),
                             "[Full name of the candidate]"),
          email |-> Extracted(LabelValue(template_output, "email:"), "[Email address]"),
          phone |-> <<Extracted(LabelValue(template_output, "phone:"), "[Phone number]")>>,
          location |-> <<Extracted(LabelValue(template_output, "location:"),
                                   "[City, State/Country]")>>],
     summary |-> <<Extracted(SummaryValue(template_output), "[Brief professional summary]")>>,
     education |-> <<>>, experience |-> <<>>, skills |-> <<>>,
     projects |-> <<>>, certifications |-> <<>>]

SummaryDefault == <<"Resume summary pending">>

\* ResumeParsingAgent.create_empty_structure
create_empty_structure ==
    [personal_info |-> [name |-> "", email |-> "", phone |-> <<>>, location |-> <<>>],
     summary |-> SummaryDefault,
     education |-> <<>>, experience |-> <<>>, skills |-> <<>>,
     projects |-> <<>>, certifications |-> <<>>]


(***************************************************************************)
(* The LLM call (OpenRouterConfig.make_request and get_completion) and the *)
(* three ATS orchestrators.  An outcome of the call is a record [kind,     *)
(* text]; the result of an orchestrator body is [exc, rec, path], where    *)
(* exc names an exception that left the body and path the return taken.    *)
(***************************************************************************)
\* make_request raises (transport failure, HTTP error status).
RequestError == [kind |-> "request_error", text |-> ""]

\* get_completion raises: the envelope has no choices / message / content.
BadEnvelope == [kind |-> "bad_envelope", text |-> ""]

\* get_completion returns None: the content of the message is null.
NoContent == [kind |-> "no_content", text |-> ""]

Completion(t) == [kind |-> "text", text |-> t]

NoRecord == [none |-> TRUE]

Returned(rec, path) == [exc |-> "none", rec |-> rec, path |-> path]

Raised(exc) == [exc |-> exc, rec |-> NoRecord, path |-> "raised"]

\* The outer "except Exception" of an orchestrator: an exception that left
\* the try block is answered with the fallback record.
OuterExcept(body, fallback) ==
    IF body.exc = "none" THEN body ELSE Returned(fallback, "exception")

\* The DecisionFeedback constructor applied to cleaned_data.
DecisionCleanedData(cleaned_data) ==
    IF cleaned_data.ok THEN Returned(cleaned_data.val, "cleaned")
    ELSE Returned(create_default_decision, "validation_failed")

\* json.loads(cleaned_json) in the handler of the first failure.
DecisionCleanedLoad(second) ==
    IF ~second.ok THEN Returned(create_default_decision, "clean_failed")
    ELSE IF second.val.t # "obj" THEN Raised("TypeError")
    ELSE DecisionCleanedData(DecisionFeedback(second.val))

\* except (json.JSONDecodeError, ValidationError): the completion is cleaned
\* and parsed again.
DecisionRetry(text) == DecisionCleanedLoad(JsonLoads(DecisionClean(text)))

DecisionValidated(text, decision_data) ==
    IF decision_data.ok THEN Returned(decision_data.val, "parsed") ELSE DecisionRetry(text)

\* json.loads(completion) and the DecisionFeedback constructor.
DecisionLoaded(text, first) ==
    IF ~first.ok THEN DecisionRetry(text)
    ELSE IF first.val.t # "obj" THEN Raised("TypeError")
    ELSE DecisionValidated(text, DecisionFeedback(first.val))

\* The try block of DecisionFeedbackAgent.generate_decision.
DecisionBody(llm) ==
    IF llm.kind \in {"request_error", "bad_envelope"}
    THEN Returned(create_default_decision, "api_error")
    ELSE IF llm.kind = "no_content" THEN Raised("TypeError")
    ELSE DecisionLoaded(llm.text, JsonLoads(llm.text))

\* generate_decision without its outer handler: the fault the no-raise
\* property has to detect.
generate_decision_unguarded(llm) == DecisionBody(llm)

\* DecisionFeedbackAgent.generate_decision: the body under its outer
\* "except Exception".
generate_decision(llm) == OuterExcept(DecisionBody(llm), create_default_decision)

\* The fallback_data record of match_job, built from extracted_scores.
FallbackAnalysis(extracted_scores) ==
    MatchAnalysis(UniformData(extracted_scores.match_score, extracted_scores.skills_score,
                              extracted_scores.experience_score,
                              extracted_scores.education_score,
                              <<"Estimated skill match", "Estimated experience match",
                                "Estimated education match">>,
                              "Analysis was reconstructed from partial data")).val

ErrorDetail == "Analysis estimated due to processing error"

\* The record built in the outer except clause of match_job.
ErrorAnalysis ==
    MatchAnalysis(UniformData(80, 75, 75, 75, <<ErrorDetail, ErrorDetail, ErrorDetail>>,
        "Analysis was estimated due to an error - Results may not be fully accurate")).val

\* The scores extract_valid_json_scores returns when its search raises
\* (the completion is None).
DefaultScores ==
    [match_score |-> DefaultMatchScore, skills_score |-> DefaultSkillsScore,
     experience_score |-> DefaultExperienceScore, education_score |-> DefaultEducationScore]

\* The return path of match_job once the cleaned text was parsed and
\* transformed; stage is the cleaning stage that produced the text.
MatchPath(transformed, stage) ==
    CASE transformed.kind = "error" -> "transform_error"
      [] transformed.kind = "default" -> "default_analysis"
      [] transformed.kind = "partial" -> "partial"
      [] transformed.kind = "transformed" -> stage

\* The fallback of the inner handlers of match_job.
MatchFallback(text, handler) ==
    Returned(FallbackAnalysis(extract_valid_json_scores(text)), handler)

\* The MatchAnalysis constructor applied to transformed_data.
MatchValidated(text, stage, transformed_data, match_analysis) ==
    IF ~match_analysis.ok THEN MatchFallback(text, "validation_error")
    ELSE Returned(match_analysis.val, MatchPath(transformed_data, stage))

MatchTransformed(text, stage, transformed_data) ==
    MatchValidated(text, stage, transformed_data, MatchAnalysis(transformed_data))

\* json.loads(cleaned_json) and self._transform_api_response(...)
MatchLoaded(text, stage, raw_analysis_data) ==
    IF ~raw_analysis_data.ok THEN MatchFallback(text, "json_error")
    ELSE MatchTransformed(text, stage, _transform_api_response(raw_analysis_data.val))

MatchCleaned(text, c) == MatchLoaded(text, c.stage, JsonLoads(c.text))

\* The try block of JobMatchingAgent.match_job.
MatchBody(llm) ==
    IF llm.kind \in {"request_error", "bad_envelope"} THEN Raised("Exception")
    ELSE IF llm.kind = "no_content"
    THEN Returned(FallbackAnalysis(DefaultScores), "cleaning_error")
    ELSE MatchCleaned(llm.text, MatchCleanResult(llm.text))

\* JobMatchingAgent.match_job
match_job(llm) == OuterExcept(MatchBody(llm), ErrorAnalysis)

\* The try block of ResumeParsingAgent.parse_resume after the request.
ParseBody(llm) ==
    IF llm.kind \in {"request_error", "bad_envelope"} THEN Raised("Exception")
    ELSE IF llm.kind = "no_content" THEN Raised("TypeError")
    ELSE Returned(convert_template_to_json(llm.text), "converted")

\* ResumeParsingAgent.parse_resume
parse_resume(llm) == OuterExcept(ParseBody(llm), create_empty_structure)

Orchestrators == {"parse_resume", "match_job", "generate_decision"}

Orchestrate(a, llm) ==
    CASE a = "parse_resume" -> parse_resume(llm)
      [] a = "match_job" -> match_job(llm)
      [] a = "generate_decision" -> generate_decision(llm)

\* An orchestrator that asks the model again when the cleaning fails: the
\* fault the single-request property has to detect.
AfterResponseRetry(a, path) ==
    IF path \in {"clean_failed", "json_error", "exception"} THEN "calling" ELSE "returned"

\* Where an orchestrator stands once it has handled the response: every
\* branch, parsed or fallback, ends in a return statement.
AfterResponse(a, path) == "returned"


(***************************************************************************)
(* The texts an LLM may return.  A completion is a payload, possibly       *)
(* damaged the way model output commonly is, possibly wrapped in a         *)
(* markdown fence or in prose.                                             *)
(***************************************************************************)
\* A decision payload; status and score are JSON tokens.
DecisionText(status, score) ==
    "{\"decision\": {\"status\": " \o status \o ", \"confidence_score\": " \o score
    \o ", \"interview_stage\": \"TECHNICAL\"}, \"rationale\": {\"key_strengths\": "
    \o "[\"Python\"], \"concerns\": [\"gap\"]}, \"next_steps\": "
    \o "{\"timeline_recommendation\": \"2 weeks\"}}"

StatusTokens == {"\"PROCEED\"", "\"REJECT\"", "7"}

ConfidenceTokens == {"85", "150", "-5", "\"92\"", "\"high\"", "null"}

\* A job-match payload; match_score and the score of one section are JSON
\* tokens, the two other sections carry the numbers 80 and 70.
MatchText(match_score, section, score) ==
    LET Sc(name, n) == IF name = section THEN score ELSE n
    IN  "{\"match_score\": " \o match_score \o ", \"analysis\": {\"skills\": {\"score\": "
        \o Sc("skills", "90") \o ", \"matches\": [\"Python\"], \"gaps\": [\"Go\"]}, "
        \o "\"experience\": {\"score\": " \o Sc("experience", "80") \o "}, "
        \o "\"education\": {\"score\": " \o Sc("education", "70")
        \o ", \"matches\": [\"BSc\"]}}, \"recommendation\": \"hire\", "
        \o "\"key_strengths\": [\"fast\"]}"

ScoreTokens == {"92", "150", "-5", "\"92\"", "\"high\""}

Sections == {"skills", "experience", "education"}

\* A resume template as the parsing prompt asks for it.
TemplateText(name, email, summary) ==
    "NAME: " \o name \o "\nEMAIL: " \o email \o "\nPHONE: Not provided\nLOCATION: Paris\n\n"
    \o "SUMMARY:\n" \o summary \o "\n\nEDUCATION:\nNot provided\n"

Fenced(t) == "~~~json\n" \o t \o "\n~~~"

BareFenced(t) == "~~~\n" \o t \o "\n~~~"

InProse(t) == "Here is the result:\n" \o t \o "\nHope it helps."

Padded(t) == "  " \o t \o " \n"

SingleQuoted(t) == ReplaceCh(t, DQ, SQ)

TrailingComma(t) == Slice(t, 0, Len(t) - 1) \o ",}"

BareKeys(t) ==
    ReplaceStr(ReplaceStr(t, "\"decision\"", "decision"), "\"match_score\"", "match_score")

\* Cut off as by the max_tokens limit.
Truncated(t) == Slice(t, 0, (Len(t) * 3) \div 4)

Wrapped(t) == {t, Fenced(t), BareFenced(t), InProse(t), Padded(t)}

Damaged(t) == {SingleQuoted(t), TrailingComma(t), BareKeys(t), Truncated(t)}

DecisionTexts ==
    {DecisionText(st, sc) : st \in StatusTokens, sc \in ConfidenceTokens}

MatchTexts ==
    {MatchText(ms, "skills", "90") : ms \in ScoreTokens}
    \cup {MatchText("88", sec, sc) : sec \in Sections, sc \in ScoreTokens \cup {"null"}}

TemplateTexts ==
    {TemplateText(n, e, "Backend engineer") :
         n \in {"Jane Doe", "Not provided"}, e \in {"jane@example.org", "[Email address]"}}
    \cup {TemplateText("Jane Doe", "jane@example.org", "Not provided"),
          "NAME: Jane Doe", "NAME:\nEMAIL: jane@example.org\n"}

\* Replies that are no record at all, or a record of another shape.
OddTexts ==
    {"", "   \n", "The candidate seems strong overall.", "[1, 2]", "92", "null", "{}",
     "\"PROCEED\"", "{\"decision\": \"PROCEED\"}", "{\"rationale\": {\"concerns\": \"none\"}}",
     "{\"recommendation\": \"Don't hire\"}", "{\"match_score\": 70, \"recommendation\": 5}",
     "{\"match_score\": 64, \"key_strengths\": 3}",
     "I would rate it \"match_score\": 77 with \"skills\": {\"score\": 61",
     "{\"decision\": {\"status\": \"HOLD\"", "match_score: 55\nrecommendation: \"hire\"",
     "{status: \"Don't\"}"}

BaseDecisionText == DecisionText("\"PROCEED\"", "85")

BaseMatchText == MatchText("92", "skills", "90")

Completions ==
    DecisionTexts \cup MatchTexts \cup TemplateTexts
    \cup UNION {Wrapped(t) : t \in OddTexts}
    \cup UNION {Wrapped(d) : d \in Damaged(BaseDecisionText) \cup Damaged(BaseMatchText)}
    \cup Wrapped(BaseDecisionText) \cup Wrapped(BaseMatchText)

Outcomes == {RequestError, BadEnvelope, NoContent} \cup {Completion(t) : t \in Completions}

ResumeTexts == {"", "   ", "Jane Doe\nBackend engineer, 5 years"}


(***************************************************************************)
(* QuestionGenerator.generate_assessment (OA_Final): the configuration and *)
(* the batching of the question-generation tasks.                          *)
(***************************************************************************)
\* ASSESSMENT_CONFIG: the junior, mid and senior rows hold the same counts.
CodingQuestions == 5

SystemDesignQuestions == 5

BehavioralQuestions == 5

\* A batch one wider than that of the source: the fault the in-flight
\* property has to detect.
BatchSizeWider == 2 + 1

\* The step of range(0, len(tasks), 2) and the width of tasks[i:i+2].
BatchSize == 2

\* The most task results per assessment that are not a generated question.
MaxFaults == 2

Levels == {"junior", "mid", "senior"}

\* if not level or level not in ["junior", "mid", "senior"]: level = "mid"
NormalizeLevel(lv) == IF lv \in Levels THEN lv ELSE "mid"

QuestionTypes == <<"coding", "system_design", "behavioral">>

\* config[...] for the normalised level.
QuestionCount(lv, type) ==
    CASE type = "coding" -> CodingQuestions
      [] type = "system_design" -> SystemDesignQuestions
      [] type = "behavioral" -> BehavioralQuestions

TypeIndex(type) == CHOOSE i \in 1..3 : QuestionTypes[i] = type

\* What follows the loop over the batches of a type.
NextPhase(type) == IF TypeIndex(type) < 3 THEN QuestionTypes[TypeIndex(type) + 1] ELSE "assemble"

NoTasks == [k \in 1..BatchSize |-> "none"]

\* batch = tasks[i:i+2]: the slots of the batch that hold a coroutine.
BatchSlots(lv, type, i) == {k \in 1..BatchSize : i + k - 1 < QuestionCount(lv, type)}

\* A result loop that appends the task result whatever it is.
CollectedAsIs(status) == status

\* What the result loop appends for a task result: the fallback question in
\* place of an exception, the question itself otherwise.
Collected(status) == IF status = "failed" THEN "fallback" ELSE status

RECURSIVE CollectFrom(_, _)
CollectFrom(ts, k) ==
    IF k > Len(ts) THEN <<>>
    ELSE IF ts[k] = "none" THEN CollectFrom(ts, k + 1)
    ELSE <<Collected(ts[k])>> \o CollectFrom(ts, k + 1)


(***************************************************************************)
(* State.  The ATS side is one orchestrator call (or one direct call of a  *)
(* cleaning routine) at a time; the OA side is one generate_assessment.    *)
(***************************************************************************)
VARIABLES
    agent,        \* the routine being run, "none" when idle
    pc,           \* "idle", "calling", "awaiting", "returned", "raised"
    input,        \* the text handed to the routine
    llm,          \* the outcome of the LLM call
    requests,     \* make_request calls of this invocation
    result,       \* the record returned
    path,         \* the return statement taken
    cleaned,      \* the text returned by a cleaning routine
    phase,        \* "idle", a question type, "assemble", "done"
    level,        \* the normalised level
    requested,    \* the level generate_assessment was called with
    batch_start,  \* i of the batch loop
    tasks,        \* per slot of the batch: "none", "scheduled", "in_flight",
                  \* "generated", "substituted", "failed"
    questions,    \* per type, what was appended so far
    started,      \* per type, LLM calls begun
    settled,      \* per type, LLM calls completed or failed
    faults,       \* task results that are not a generated question
    cli_pc,       \* main_cli: the step reached and the stage it belongs to
    cli_job,      \* --job was given
    cli_out,      \* --output was given
    cli_fail,     \* the step of this run that fails, if any
    cli_error,    \* an exception reached the handler of process_resume
    cli_files,    \* per artifact: "absent", "empty" or "written"
    cli_exit,     \* the exit code, -1 while the process runs
    iv_pc,        \* Interview: "idle", the generator due, "assemble", "returned", "raised"
    iv_routine,   \* "guide", "parse_questions" or "parse_markdown"
    iv_level,     \* the experience level of the job the guide is for
    iv_input,     \* the reply being parsed
    iv_calls,     \* the LLM invocations made, in order, with the questions each gave
    iv_sections,  \* the sections appended so far
    iv_result,    \* the value returned
    iv_exc,       \* the exception raised to the caller, "none" if none
    ev_pc,          \* evaluate_assessment: "idle", "loop", "returned", "raised"
    ev_assessment,  \* the assessment: its level and its questions
    ev_answered,    \* for each question visited, whether it had an answer
    ev_scores,      \* question_scores, in the order of the questions
    ev_feedback,    \* feedback, in the order of the questions
    ev_ratings,     \* technical_ratings
    ev_indicators,  \* passion_indicators_found, or what was extended with
    ev_calls,       \* the evaluation calls made to the model
    ev_result,      \* the AssessmentResult returned
    ev_exc,         \* the exception raised to the caller, "none" if none
    cq_pc,          \* _create_coding_question: "idle", "returned", "raised"
    cq_input,       \* its level and the structured response it was given
    cq_result,       \* the CodingQuestion returned, or the exception raised
    jd_pc,        \* run_workflow: "idle", "started", "validated", "generating",
                  \* "generated", "returned", "raised"
    jd_input,     \* the job_input mapping
    jd_config,    \* LLM_PROVIDER, PREVIEW_MODE and the enabled platforms
    jd_state,     \* the workflow state: job_description, posting_results,
                  \* errors, status
    jd_sections,  \* what _get_completion returned, call by call
    jd_failures,  \* the completion calls in which the provider raised
    jd_llm_calls, \* provider calls made
    jd_posts,     \* post_job calls made
    jd_client_calls,  \* create_tweet and create_job calls made
    dc_pc,        \* clean_json_response of the decision agent: "idle", "stripped",
                  \* "fixed", "structural", "lines", "delimiter", "returned"
    dc_input,     \* response_text
    dc_text,      \* cleaned_text
    dc_inserts,   \* commas inserted at the position of a parse error
    dc_result     \* the text returned

atsVars == <<agent, pc, input, llm, requests, result, path, cleaned>>

oaVars ==
    <<phase, level, requested, batch_start, tasks, questions, started, settled, faults>>

cliVars == <<cli_pc, cli_job, cli_out, cli_fail, cli_error, cli_files, cli_exit>>

ivVars ==
    <<iv_pc, iv_routine, iv_level, iv_input, iv_calls, iv_sections, iv_result, iv_exc>>

vars == <<agent, pc, input, llm, requests, result, path, cleaned,
          phase, level, requested, batch_start, tasks, questions, started, settled,
          faults,
          cli_pc, cli_job, cli_out, cli_fail, cli_error, cli_files, cli_exit,
          iv_pc, iv_routine, iv_level, iv_input, iv_calls, iv_sections, iv_result,
          iv_exc,
          ev_pc, ev_assessment, ev_answered, ev_scores, ev_feedback, ev_ratings,
          ev_indicators, ev_calls, ev_result, ev_exc, cq_pc, cq_input, cq_result,
          jd_pc, jd_input, jd_config, jd_state, jd_sections, jd_failures,
          jd_llm_calls, jd_posts, jd_client_calls,
          dc_pc, dc_input, dc_text, dc_inserts, dc_result>>

\* What the actions of one component leave unchanged: the variables of the
\* other components.
evVars ==
    <<ev_pc, ev_assessment, ev_answered, ev_scores, ev_feedback, ev_ratings,
      ev_indicators, ev_calls, ev_result, ev_exc>>

cqVars == <<cq_pc, cq_input, cq_result>>

dcVars == <<dc_pc, dc_input, dc_text, dc_inserts, dc_result>>

jdVars ==
    <<jd_pc, jd_input, jd_config, jd_state, jd_sections, jd_failures,
      jd_llm_calls, jd_posts, jd_client_calls>>

frameATS == <<oaVars, cliVars, ivVars, evVars, cqVars, jdVars, dcVars>>

frameOA == <<atsVars, cliVars, ivVars, evVars, cqVars, jdVars, dcVars>>

frameCLI == <<atsVars, oaVars, ivVars, evVars, cqVars, jdVars, dcVars>>

frameIV == <<atsVars, oaVars, cliVars, evVars, cqVars, jdVars, dcVars>>

frameEV == <<atsVars, oaVars, cliVars, ivVars, cqVars, jdVars, dcVars>>

frameCQ == <<atsVars, oaVars, cliVars, ivVars, evVars, jdVars, dcVars>>

frameJD == <<atsVars, oaVars, cliVars, ivVars, evVars, cqVars, dcVars>>

frameDC == <<atsVars, oaVars, cliVars, ivVars, evVars, cqVars, jdVars>>

NoOutcome == [kind |-> "none", text |-> ""]

NoQuestions == [t \in {"coding", "system_design", "behavioral"} |-> <<>>]

NoCalls == [t \in {"coding", "system_design", "behavioral"} |-> 0]

InitATS ==
    /\ agent = "none" /\ pc = "idle" /\ input = "" /\ llm = NoOutcome
    /\ requests = 0 /\ result = NoRecord /\ path = "" /\ cleaned = ""

InitOA ==
    /\ phase = "idle" /\ level = "mid" /\ requested = "mid" /\ batch_start = 0
    /\ tasks = NoTasks
    /\ questions = NoQuestions /\ started = NoCalls /\ settled = NoCalls /\ faults = 0

Stages == {"resume", "match", "decision"}

At_(step, stage) == [step |-> step, stage |-> stage]

NoFailure == At_("none", "none")

NoFiles == [a \in Stages |-> "absent"]

InitCLI ==
    /\ cli_pc = At_("idle", "none") /\ cli_job = FALSE /\ cli_out = FALSE
    /\ cli_fail = NoFailure /\ cli_error = FALSE /\ cli_files = NoFiles /\ cli_exit = -1

InitIV ==
    /\ iv_pc = "idle" /\ iv_routine = "none" /\ iv_level = "" /\ iv_input = Completion("")
    /\ iv_calls = <<>>
    /\ iv_sections = <<>> /\ iv_result = NoRecord /\ iv_exc = "none"

InitEV ==
    /\ ev_pc = "idle" /\ ev_assessment = [level |-> "", questions |-> <<>>]
    /\ ev_answered = <<>> /\ ev_scores = <<>> /\ ev_feedback = <<>> /\ ev_ratings = <<>>
    /\ ev_indicators = <<>> /\ ev_calls = 0 /\ ev_result = NoRecord /\ ev_exc = "none"

InitCQ ==
    /\ cq_pc = "idle"
    /\ cq_input = [level |-> "", question_json |-> [t |-> "obj", m |-> <<>>]]
    /\ cq_result = [exc |-> "none", rec |-> NoRecord]

\* The state dictionary before run_workflow has created it.
NoState ==
    [job_description |-> "", posting_results |-> <<>>, errors |-> <<>>,
     status |-> "none"]

InitJD ==
    /\ jd_pc = "idle"
    /\ jd_input = [t |-> "obj", m |-> <<>>]
    /\ jd_config = [provider |-> "", preview |-> TRUE, enabled |-> {}]
    /\ jd_state = NoState
    /\ jd_sections = <<>>
    /\ jd_failures = {}
    /\ jd_llm_calls = 0
    /\ jd_posts = 0
    /\ jd_client_calls = <<>>

InitDC ==
    /\ dc_pc = "idle"
    /\ dc_input = ""
    /\ dc_text = ""
    /\ dc_inserts = 0
    /\ dc_result = ""

Init ==
    InitATS /\ InitOA /\ InitCLI /\ InitIV /\ InitEV /\ InitCQ /\ InitJD /\ InitDC


(***************************************************************************)
(* ATS actions                                                             *)
(***************************************************************************)
JobRequirements == "Backend engineer, Python"

\* The text argument of an orchestrator: the resume text of parse_resume,
\* the job requirements of the two others.
InputsOf(a) == IF a = "parse_resume" THEN ResumeTexts ELSE {JobRequirements}

\* An orchestrator is entered.  parse_resume raises ValueError on a blank
\* resume before any request and its handler returns the empty structure;
\* every other entry goes on to make_request.
Invoke(a, text) ==
    /\ pc = "idle"
    /\ agent' = a /\ input' = text /\ requests' = 0
    /\ IF a = "parse_resume" /\ Strip(text) = ""
       THEN pc' = "returned" /\ result' = create_empty_structure /\ path' = "empty_input"
       ELSE pc' = "calling" /\ result' = NoRecord /\ path' = ""
    /\ UNCHANGED <<llm, cleaned>>
    /\ UNCHANGED frameATS

\* self.openrouter.make_request(...)
MakeRequest ==
    /\ pc = "calling"
    /\ pc' = "awaiting" /\ requests' = requests + 1
    /\ UNCHANGED <<agent, input, llm, result, path, cleaned>>
    /\ UNCHANGED frameATS

\* The call ends with outcome o and the orchestrator runs to its return.
Respond(o) ==
    /\ pc = "awaiting"
    /\ llm' = o
    /\ \E r \in {Orchestrate(agent, o)} :
           /\ result' = r.rec
           /\ path' = r.path
           /\ pc' = IF r.exc = "none" THEN AfterResponse(agent, r.path) ELSE "raised"
    /\ UNCHANGED <<agent, input, requests, cleaned>>
    /\ UNCHANGED frameATS

\* The caller takes the record (or the exception) and the agent is idle again.
Return ==
    /\ pc \in {"returned", "raised"}
    /\ agent' = "none" /\ pc' = "idle" /\ input' = "" /\ llm' = NoOutcome
    /\ requests' = 0 /\ result' = NoRecord /\ path' = "" /\ cleaned' = ""
    /\ UNCHANGED frameATS

CleanRoutines == {"decision_clean", "match_clean"}

\* clean_json_response of the agent a, with the stage of the match cleaner.
clean_json_response(a, response_text) ==
    IF a = "decision_clean" THEN Cleaned("cleaned", DecisionClean(response_text))
    ELSE MatchCleanResult(response_text)

\* A direct call of one of the two clean_json_response routines.
CallClean(a, response_text) ==
    /\ pc = "idle"
    /\ agent' = a /\ input' = response_text
    /\ \E c \in {clean_json_response(a, response_text)} :
           cleaned' = c.text /\ path' = c.stage
    /\ pc' = "returned"
    /\ UNCHANGED <<llm, requests, result>>
    /\ UNCHANGED frameATS

Next ==
    \/ \E a \in Orchestrators : \E text \in InputsOf(a) : Invoke(a, text)
    \/ MakeRequest
    \/ \E o \in Outcomes : Respond(o)
    \/ Return
    \/ \E a \in CleanRoutines : \E t \in Completions : CallClean(a, t)

Spec == Init /\ [][Next]_vars


(***************************************************************************)
(* OA actions                                                              *)
(***************************************************************************)
RequestedLevels == {"junior", "mid", "senior", "", "lead"}

IsQuestionType(p) == p \in {"coding", "system_design", "behavioral"}

\* generate_assessment is entered: the level is normalised and the three
\* lists of coroutines are built; none of them runs yet.
StartAssessment(lv) ==
    /\ phase = "idle"
    /\ requested' = lv
    /\ level' = NormalizeLevel(lv)
    /\ phase' = "coding" /\ batch_start' = 0 /\ tasks' = NoTasks
    /\ questions' = NoQuestions /\ started' = NoCalls /\ settled' = NoCalls /\ faults' = 0
    /\ UNCHANGED frameOA

\* asyncio.gather over the batch with return_exceptions=True: the coroutines of the
\* batch become tasks.
StartBatch ==
    /\ IsQuestionType(phase) /\ tasks = NoTasks
    /\ batch_start < QuestionCount(level, phase)
    /\ tasks' = [k \in 1..BatchSize |->
                    IF k \in BatchSlots(level, phase, batch_start) THEN "scheduled" ELSE "none"]
    /\ UNCHANGED <<phase, level, requested, batch_start, questions, started, settled,
                   faults>>
    /\ UNCHANGED frameOA

\* A task reaches  await temp_llm.ainvoke(formatted_prompt).
BeginCall(k) ==
    /\ IsQuestionType(phase) /\ tasks[k] = "scheduled"
    /\ tasks' = [tasks EXCEPT ![k] = "in_flight"]
    /\ started' = [started EXCEPT ![phase] = @ + 1]
    /\ UNCHANGED <<phase, level, requested, batch_start, questions, settled, faults>>
    /\ UNCHANGED frameOA

\* The call of task k ends and the task runs to its end without another
\* await: the question is built from the reply ("generated"), or from the
\* substitute mapping of _generate_structured_response when the call failed
\* ("substituted"), or building it raises ("failed").
EndCall(k, outcome) ==
    /\ IsQuestionType(phase) /\ tasks[k] = "in_flight"
    /\ outcome # "generated" => faults < MaxFaults
    /\ tasks' = [tasks EXCEPT ![k] = outcome]
    /\ settled' = [settled EXCEPT ![phase] = @ + 1]
    /\ faults' = IF outcome = "generated" THEN faults ELSE faults + 1
    /\ UNCHANGED <<phase, level, requested, batch_start, questions, started>>
    /\ UNCHANGED frameOA

\* gather returns: the result loop appends a question per task, then the
\* batch loop moves on, to the next batch or past the last one.
CollectBatch ==
    /\ IsQuestionType(phase) /\ tasks # NoTasks
    /\ \A k \in 1..BatchSize : tasks[k] \in {"none", "generated", "substituted", "failed"}
    /\ questions' = [questions EXCEPT ![phase] = @ \o CollectFrom(tasks, 1)]
    /\ tasks' = NoTasks
    /\ IF batch_start + BatchSize < QuestionCount(level, phase)
       THEN batch_start' = batch_start + BatchSize /\ phase' = phase
       ELSE batch_start' = 0 /\ phase' = NextPhase(phase)
    /\ UNCHANGED <<level, requested, started, settled, faults>>
    /\ UNCHANGED frameOA

\* The Assessment object is built and returned.
Assemble ==
    /\ phase = "assemble"
    /\ phase' = "done"
    /\ UNCHANGED <<level, requested, batch_start, tasks, questions, started, settled, faults>>
    /\ UNCHANGED frameOA

FinishAssessment ==
    /\ phase = "done"
    /\ phase' = "idle" /\ level' = "mid" /\ requested' = "mid" /\ batch_start' = 0
    /\ tasks' = NoTasks
    /\ questions' = NoQuestions /\ started' = NoCalls /\ settled' = NoCalls /\ faults' = 0
    /\ UNCHANGED frameOA

NextOA ==
    \/ \E lv \in RequestedLevels : StartAssessment(lv)
    \/ StartBatch
    \/ \E k \in 1..BatchSize : BeginCall(k)
    \/ \E k \in 1..BatchSize : \E outcome \in {"generated", "substituted", "failed"} :
           EndCall(k, outcome)
    \/ CollectBatch
    \/ Assemble
    \/ FinishAssessment

SpecOA == Init /\ [][NextOA]_vars


(***************************************************************************)
(* main_cli.py: process_resume, process_job_matching and                   *)
(* process_decision_feedback.  A stage extracts the text of its input      *)
(* file (the decision stage has none), constructs its agent, runs it,      *)
(* saves the result when --output was given and prints it.  The agents     *)
(* themselves never raise; what can fail is the file, the construction of  *)
(* an agent (its prompt file), and the serialisation of the result.        *)
(***************************************************************************)
\* The steps of a run that the environment can make fail: extract_text and
\* the agent constructors.
Failures ==
    {NoFailure, At_("extract", "resume"), At_("construct", "resume"),
     At_("extract", "match"), At_("construct", "match"), At_("construct", "decision")}

\* What a stage hands to json.dump, json.dumps and the summary printer:
\* process_resume passes parsed_resume.model_dump(), a dict; the two other
\* stages pass the pydantic object the agent returned.
Dumped(stage) == IF stage = "resume" THEN "dict" ELSE "model"

\* json.dump / json.dumps accept dicts, lists, strings and numbers and raise
\* TypeError for any other object.
JsonSerializable(kind) == kind = "dict"

\* decision['decision'][...] of print_decision_summary: a pydantic object is
\* not subscriptable.
Subscriptable(kind) == kind = "dict"

\* The stage that follows the printing of a result.
FollowingStage(stage) ==
    CASE stage = "resume" -> IF cli_job THEN At_("extract", "match") ELSE At_("return", "none")
      [] stage = "match" -> At_("construct", "decision")
      [] stage = "decision" -> At_("return", "none")

\* parser.parse_args(): a command line without the resume argument ends
\* the process with status 2; otherwise process_resume is entered.
CliStart(usage_ok, job, out, fail) ==
    /\ cli_pc = At_("idle", "none")
    /\ cli_job' = job /\ cli_out' = out /\ cli_fail' = fail
    /\ cli_error' = FALSE /\ cli_files' = NoFiles
    /\ IF usage_ok
       THEN cli_pc' = At_("extract", "resume") /\ cli_exit' = -1
       ELSE cli_pc' = At_("exited", "none") /\ cli_exit' = 2
    /\ UNCHANGED frameCLI

\* file_handler.extract_text(path) and text_preprocessor.clean_text(text)
ExtractText(stage) ==
    /\ cli_pc = At_("extract", stage)
    /\ cli_pc' = IF cli_fail = cli_pc THEN At_("raised", stage) ELSE At_("construct", stage)
    /\ UNCHANGED <<cli_job, cli_out, cli_fail, cli_error, cli_files, cli_exit>>
    /\ UNCHANGED frameCLI

\* ResumeParsingAgent(...), JobMatchingAgent(...), DecisionFeedbackAgent(...)
ConstructAgent(stage) ==
    /\ cli_pc = At_("construct", stage)
    /\ cli_pc' = IF cli_fail = cli_pc THEN At_("raised", stage) ELSE At_("run", stage)
    /\ UNCHANGED <<cli_job, cli_out, cli_fail, cli_error, cli_files, cli_exit>>
    /\ UNCHANGED frameCLI

\* parse_resume, match_job, generate_decision: each returns a record.
RunAgent(stage) ==
    /\ cli_pc = At_("run", stage)
    /\ cli_pc' = At_("save", stage)
    /\ UNCHANGED <<cli_job, cli_out, cli_fail, cli_error, cli_files, cli_exit>>
    /\ UNCHANGED frameCLI

\* if output_path: with open(output_file, 'w') as f: json.dump(value, f).
\* open() creates the file; a value json cannot serialise raises before
\* anything is written and the file is left empty.
SaveArtifact(stage) ==
    /\ cli_pc = At_("save", stage)
    /\ IF ~cli_out
       THEN cli_pc' = At_("print", stage) /\ UNCHANGED cli_files
       ELSE IF JsonSerializable(Dumped(stage))
       THEN cli_pc' = At_("print", stage)
            /\ cli_files' = [cli_files EXCEPT ![stage] = "written"]
       ELSE cli_pc' = At_("raised", stage)
            /\ cli_files' = [cli_files EXCEPT ![stage] = "empty"]
    /\ UNCHANGED <<cli_job, cli_out, cli_fail, cli_error, cli_exit>>
    /\ UNCHANGED frameCLI

\* print(json.dumps(value)) of the first two stages, print_decision_summary
\* of the third; then the next stage is entered.
PrintResult(stage) ==
    /\ cli_pc = At_("print", stage)
    /\ cli_pc' = IF stage = "decision"
                 THEN (IF Subscriptable(Dumped(stage)) THEN FollowingStage(stage)
                       ELSE At_("raised", stage))
                 ELSE (IF JsonSerializable(Dumped(stage)) THEN FollowingStage(stage)
                       ELSE At_("raised", stage))
    /\ UNCHANGED <<cli_job, cli_out, cli_fail, cli_error, cli_files, cli_exit>>
    /\ UNCHANGED frameCLI

\* The handlers: those of the decision and the matching stage print and
\* re-raise, that of process_resume prints the error and the traceback and
\* lets process_resume return.
HandleError(stage) ==
    /\ cli_pc = At_("raised", stage)
    /\ cli_error' = TRUE
    /\ cli_pc' = At_("return", "none")
    /\ UNCHANGED <<cli_job, cli_out, cli_fail, cli_files, cli_exit>>
    /\ UNCHANGED frameCLI

\* process_resume returns to main, main returns, and the interpreter ends
\* with status 0.
CliExit ==
    /\ cli_pc = At_("return", "none")
    /\ cli_pc' = At_("exited", "none") /\ cli_exit' = 0
    /\ UNCHANGED <<cli_job, cli_out, cli_fail, cli_error, cli_files>>
    /\ UNCHANGED frameCLI

NextCLI ==
    \/ \E usage_ok \in BOOLEAN, job \in BOOLEAN, out \in BOOLEAN, fail \in Failures :
           CliStart(usage_ok, job, out, fail)
    \/ \E stage \in Stages : ExtractText(stage)
    \/ \E stage \in Stages : ConstructAgent(stage)
    \/ \E stage \in Stages : RunAgent(stage)
    \/ \E stage \in Stages : SaveArtifact(stage)
    \/ \E stage \in Stages : PrintResult(stage)
    \/ \E stage \in Stages : HandleError(stage)
    \/ CliExit

SpecCLI == Init /\ [][NextCLI]_vars


(***************************************************************************)
(* Interview Final: InterviewAgent and ParserAgent.  The reply of          *)
(* self.llm.invoke is an outcome [kind, text] as above: the call raises    *)
(* ("request_error"), the content is not a string ("no_content"), or it is *)
(* a text.                                                                 *)
(***************************************************************************)
FenceJson == "~~~json"

FenceMark == "~~~"

\* if "```json" in response: response = response.split("```json", 1)[1]
AfterFence(response) ==
    IF Contains(response, FenceJson)
    THEN From(response, FindStr(response, FenceJson, 0) + Len(FenceJson))
    ELSE response

\* if "```" in response: response = response.split("```", 1)[0]
BeforeFence(response) ==
    IF Contains(response, FenceMark) THEN Slice(response, 0, FindStr(response, FenceMark, 0))
    ELSE response

\* The fence cleanup of _parse_questions_response and of parse_markdown,
\* with the strip() that precedes json.loads.
FenceCleanup(response) == Strip(BeforeFence(AfterFence(response)))

\* A parser that keeps lists only.
QuestionsOfDataListOnly(data) ==
    IF data.ok /\ data.val.t = "arr" THEN data.val ELSE JArr(<<>>)

\* The three return statements of _parse_questions_response and the one of
\* its handler, for the result data of json.loads.
QuestionsOfData(data) ==
    IF ~data.ok THEN JArr(<<>>)
    ELSE IF data.val.t = "arr" THEN data.val
    ELSE IF data.val.t = "obj" /\ HasKey(data.val, "questions") THEN Get(data.val, "questions")
    ELSE JArr(<<data.val>>)

\* InterviewAgent._parse_questions_response; a content that is not a string
\* raises inside the try block and the handler returns [].
_parse_questions_response(reply) ==
    IF reply.kind # "text" THEN JArr(<<>>)
    ELSE QuestionsOfData(JsonLoads(FenceCleanup(reply.text)))

\* bool(v) of what _parse_questions_response returned.
NonEmpty(v) ==
    CASE v.t = "arr" -> v.a # <<>>
      [] v.t = "obj" -> v.m # <<>>
      [] v.t = "str" -> v.s # ""
      [] v.t = "num" -> v.n # 0
      [] v.t = "lit" -> v.s = "true"

\* InterviewQuestion(id=..., **q): q has to be a mapping without the key id
\* whose required fields validate; the record keeps the fields the guide
\* reads.
QuestionFields(q, category, question, answer, difficulty, rationale, score) ==
    IF category.ok /\ question.ok /\ answer.ok /\ difficulty.ok /\ rationale.ok /\ score.ok
       /\ Field(q, "follow_up_questions", StrListField, <<>>).ok
       /\ Field(q, "skills_tested", StrListField, <<>>).ok
    THEN Valid([category |-> category.val, question |-> question.val, score |-> score.val])
    ELSE Invalid

Required(q, key, T(_)) == IF HasKey(q, key) THEN T(Get(q, key)) ELSE Invalid

InterviewQuestion(q) ==
    IF q.t # "obj" \/ HasKey(q, "id") THEN Invalid
    ELSE QuestionFields(q, Required(q, "category", StrField), Required(q, "question", StrField),
                        Required(q, "expected_answer", StrField),
                        Required(q, "difficulty", IntField),
                        Required(q, "rationale", StrField), Required(q, "score", IntField))

\* The list comprehension of a generator; anything that is not a list of
\* valid questions raises and the handler of the generator returns [].
QuestionList(questions_data) ==
    IF questions_data.t = "arr"
       /\ \A i \in 1..Len(questions_data.a) : InterviewQuestion(questions_data.a[i]).ok
    THEN [i \in 1..Len(questions_data.a) |-> InterviewQuestion(questions_data.a[i]).val]
    ELSE <<>>

QuestionsBuilt(questions_data) ==
    IF NonEmpty(questions_data) THEN QuestionList(questions_data) ELSE <<>>

\* _generate_technical_questions and its three siblings: one invoke, the
\* reply parsed, the questions built; every exception is answered with [].
GenerateQuestions(reply) ==
    IF reply.kind # "text" THEN <<>>
    ELSE QuestionsBuilt(_parse_questions_response(reply))

\* sum(q.score for q in questions)
RECURSIVE SumScores(_)
SumScores(qs) == IF qs = <<>> THEN 0 ELSE qs[1].score + SumScores(Tail(qs))

\* The totals below 400 for which the double product total * 0.7 falls
\* just short of the integer 7 * total / 10.
FloatShortfall == {90, 170, 180, 330, 340, 350, 360}

\* int(total * 0.7) for 0 <= total: the double product truncated.
TruncatedSeventyPercent(total) ==
    IF total \in FloatShortfall THEN (7 * total) \div 10 - 1 ELSE (7 * total) \div 10

\* int(total * 0.7): int() truncates towards zero.
PassingScore(total) ==
    IF total >= 0 THEN TruncatedSeventyPercent(total)
    ELSE 0 - TruncatedSeventyPercent(0 - total)

SectionNames ==
    [technical |-> "Technical Assessment", coding |-> "Coding Challenge",
     system_design |-> "System Design", behavioral |-> "Behavioral Assessment"]

\* InterviewSection(name=..., questions=..., total_score=..., passing_score=...)
InterviewSection(kind, qs) ==
    [name |-> SectionNames[kind], questions |-> qs,
     total_score |-> SumScores(qs), passing_score |-> PassingScore(SumScores(qs))]

RECURSIVE SumTotals(_)
SumTotals(secs) == IF secs = <<>> THEN 0 ELSE secs[1].total_score + SumTotals(Tail(secs))

RECURSIVE SumPassing(_)
SumPassing(secs) == IF secs = <<>> THEN 0 ELSE secs[1].passing_score + SumPassing(Tail(secs))

\* A passing score taken as 70 percent of the grand total.
GuidePassingOfTotal(secs) == PassingScore(SumTotals(secs))

\* passing_score = sum(section.passing_score for section in sections)
GuidePassingScore(secs) == SumPassing(secs)

\* InterviewGuide(...): the fields computed from the sections.
InterviewGuide(secs) ==
    [sections |-> secs, total_score |-> SumTotals(secs),
     passing_score |-> GuidePassingScore(secs)]

\* A test of the experience level that does not lower-case it.
WantsSystemDesignAsWritten(experience_level) == experience_level \in {"mid", "senior"}

\* if experience_level.lower() in ["mid", "senior"]
WantsSystemDesign(experience_level) == Lower(experience_level) \in {"mid", "senior"}

\* The generator that follows one in generate_interview_guide.
GeneratorAfter(kind, experience_level) ==
    CASE kind = "technical" -> "coding"
      [] kind = "coding" ->
             IF WantsSystemDesign(experience_level) THEN "system_design" ELSE "behavioral"
      [] kind = "system_design" -> "behavioral"
      [] kind = "behavioral" -> "assemble"


\* llm_output.get(section, {}).get(key, default) of parse_markdown: the
\* value, or the exception that either get raises on what is not a mapping.
NestedGet(llm_output, section, key, default) ==
    IF llm_output.t # "obj" THEN [exc |-> "AttributeError", val |-> default]
    ELSE IF ~HasKey(llm_output, section) THEN [exc |-> "none", val |-> default]
    ELSE IF Get(llm_output, section).t # "obj" THEN [exc |-> "AttributeError", val |-> default]
    ELSE IF HasKey(Get(llm_output, section), key)
         THEN [exc |-> "none", val |-> Get(Get(llm_output, section), key)]
    ELSE [exc |-> "none", val |-> default]

\* The models parse_markdown builds, by the fields the interview agent
\* reads: JobDescription(...), ResumeData(...) with its personal_info and
\* OAResult(...) behind oa_data = llm_output.get("oa_results", {}).
ParsedInputOf(job_title, location, experience_level, personal_info, status) ==
    IF \E g \in {job_title, location, experience_level, personal_info, status} :
           g.exc # "none"
    THEN [exc |-> "AttributeError", rec |-> NoRecord]
    ELSE IF /\ StrField(job_title.val).ok /\ StrField(location.val).ok
            /\ StrField(experience_level.val).ok /\ StrField(status.val).ok
            /\ personal_info.val.t = "obj" /\ Required(personal_info.val, "name", StrField).ok
    THEN [exc |-> "none",
          rec |-> [job_title |-> job_title.val.s,
                   experience_level |-> experience_level.val.s,
                   candidate_name |-> Get(personal_info.val, "name").s]]
    ELSE [exc |-> "ValidationError", rec |-> NoRecord]

\* The models of parse_markdown for the value llm_output of json.loads.
ParseMarkdownModels(llm_output) ==
    ParsedInputOf(NestedGet(llm_output, "job_description", "job_title",
                            JStr("Software Engineer")),
                  NestedGet(llm_output, "job_description", "location", JStr("Remote")),
                  NestedGet(llm_output, "job_description", "experience_level",
                            JStr("Mid-level")),
                  NestedGet(llm_output, "resume_data", "personal_info",
                            JObj(<<[k |-> "name", v |-> JStr("Candidate")]>>)),
                  NestedGet(llm_output, "oa_results", "status", JStr("UNKNOWN")))

\* An inner try block that answers unparseable text with the models of an
\* empty mapping.
ParseMarkdownDefaulting(data) ==
    IF ~data.ok THEN ParseMarkdownModels(JObj(<<>>)) ELSE ParseMarkdownModels(data.val)

\* The inner try block of parse_markdown: json.loads, then the models; its
\* handler re-raises the JSONDecodeError.
ParseMarkdownLoaded(data) ==
    IF ~data.ok THEN [exc |-> "JSONDecodeError", rec |-> NoRecord]
    ELSE ParseMarkdownModels(data.val)

\* ParserAgent.parse_markdown after its one self.llm.invoke(prompt): the
\* outer handler re-raises whatever was raised.
parse_markdown(reply) ==
    CASE reply.kind = "request_error" -> [exc |-> "Exception", rec |-> NoRecord]
      [] reply.kind = "text" -> ParseMarkdownLoaded(JsonLoads(FenceCleanup(reply.text)))
      [] OTHER -> [exc |-> "TypeError", rec |-> NoRecord]

(***************************************************************************)
(* Replies of the interview model                                          *)
(***************************************************************************)
QuestionScore90 ==
    "{\"category\": \"t\", \"question\": \"q\", \"expected_answer\": \"a\", "
        \o "\"difficulty\": 3, \"rationale\": \"r\", \"score\": 90}"

QuestionScore10 ==
    "{\"category\": \"t\", \"question\": \"q\", \"expected_answer\": \"a\", "
        \o "\"follow_up_questions\": [\"f\"], \"difficulty\": 2, \"rationale\": \"r\", "
        \o "\"score\": 10}"

QuestionScore25 ==
    "{\"category\": \"c\", \"question\": \"p\", \"expected_answer\": \"a\", "
        \o "\"difficulty\": 4, \"skills_tested\": [\"s\"], \"rationale\": \"r\", \"score\": 25}"

QuestionScoreNegative ==
    "{\"category\": \"b\", \"question\": \"q\", \"expected_answer\": \"a\", "
        \o "\"difficulty\": 1, \"rationale\": \"r\", \"score\": -10}"

QuestionWithoutScore ==
    "{\"category\": \"t\", \"question\": \"q\", \"expected_answer\": \"a\", "
        \o "\"difficulty\": 3, \"rationale\": \"r\"}"

QuestionWithId ==
    "{\"id\": \"q1\", \"category\": \"t\", \"question\": \"q\", \"expected_answer\": \"a\", "
        \o "\"difficulty\": 3, \"rationale\": \"r\", \"score\": 5}"

ListOf(t) == "[" \o t \o "]"

UnderQuestions(t) == "{\"questions\": " \o t \o "}"

\* Payloads that are JSON, and some that are not.
QuestionPayloads ==
    {ListOf(QuestionScore90), ListOf(QuestionScore10 \o ", " \o QuestionScore25),
     UnderQuestions(ListOf(QuestionScore25)), QuestionScoreNegative,
     ListOf(QuestionWithoutScore), ListOf(QuestionWithId), "[]", "7", "\"text\"", "null",
     "{\"questions\": 3}", "{}", "Sorry, I cannot help.", "[{\"score\": 5},"}

\* The texts a model may answer a question prompt with.
QuestionTexts ==
    QuestionPayloads
        \cup {Fenced(ListOf(QuestionScore90)), BareFenced(ListOf(QuestionScore90)),
              InProse(Fenced(UnderQuestions(ListOf(QuestionScore25)))),
              BareFenced(QuestionScoreNegative), Fenced("oops"), BareFenced("oops"),
              InProse(ListOf(QuestionScore90))}

\* The replies the four generators are driven with.
GeneratorReplies ==
    {Completion(t) : t \in {ListOf(QuestionScore90),
                            ListOf(QuestionScore10 \o ", " \o QuestionScore25),
                            Fenced(UnderQuestions(ListOf(QuestionScore25))),
                            QuestionScoreNegative, ListOf(QuestionWithoutScore),
                            BareFenced(ListOf(QuestionScore90)), "no questions"}}
        \cup {RequestError, NoContent}

ExperienceLevels == {"Mid", "senior", "Junior", "Mid-level", "SENIOR", ""}

SeniorPosting ==
    "{\"job_description\": {\"job_title\": \"Dev\", \"experience_level\": \"Senior\"}, "
        \o "\"oa_results\": {\"status\": \"PASS\"}}"

MarkdownPayloads ==
    {SeniorPosting, "{}", "[1]", "{\"job_description\": 5}",
     "{\"job_description\": {\"job_title\": 5}}",
     "{\"resume_data\": {\"personal_info\": {\"name\": \"Ann\"}}}",
     "{\"resume_data\": {\"personal_info\": {}}}", "I could not parse this.",
     "{\"job_description\": {"}

MarkdownReplies ==
    {Completion(t) : t \in MarkdownPayloads
                             \cup {Fenced(SeniorPosting), BareFenced(SeniorPosting),
                                   InProse(Fenced("{}")), BareFenced("{}"),
                                   Fenced("I could not parse this.")}}
        \cup {RequestError, NoContent}

(***************************************************************************)
(* Interview actions                                                       *)
(***************************************************************************)
Generators == {"technical", "coding", "system_design", "behavioral"}

\* One self.llm.invoke, by the routine that made it and the number of
\* questions the routine returned for it.
Invocation(by, returned) == [by |-> by, returned |-> returned]

\* A direct call of _parse_questions_response on a text.
CallParseQuestions(t) ==
    /\ iv_pc = "idle"
    /\ iv_routine' = "parse_questions"
    /\ iv_input' = Completion(t)
    /\ iv_result' = _parse_questions_response(Completion(t))
    /\ iv_pc' = "returned"
    /\ UNCHANGED <<iv_level, iv_calls, iv_sections, iv_exc, frameIV>>

\* parse_markdown up to and including its self.llm.invoke(prompt).
ParseMarkdownInvoke ==
    /\ iv_pc = "idle"
    /\ iv_routine' = "parse_markdown"
    /\ iv_calls' = Append(iv_calls, Invocation("parse", 0))
    /\ iv_pc' = "invoked"
    /\ UNCHANGED <<iv_level, iv_input, iv_sections, iv_result, iv_exc, frameIV>>

\* parse_markdown from the reply to its return or raise.
ParseMarkdownRespond(reply) ==
    /\ iv_pc = "invoked"
    /\ iv_input' = reply
    /\ \E r \in {parse_markdown(reply)} :
           /\ iv_exc' = r.exc
           /\ iv_result' = r.rec
           /\ iv_pc' = IF r.exc = "none" THEN "returned" ELSE "raised"
    /\ UNCHANGED <<iv_routine, iv_level, iv_calls, iv_sections, frameIV>>

\* generate_interview_guide is entered for a job of this experience level.
StartGuide(experience_level) ==
    /\ iv_pc = "idle"
    /\ iv_routine' = "guide"
    /\ iv_level' = experience_level
    /\ iv_pc' = "technical"
    /\ UNCHANGED <<iv_input, iv_calls, iv_sections, iv_result, iv_exc, frameIV>>

\* One generator call of generate_interview_guide with the append that
\* follows it.
Generate(reply) ==
    /\ iv_routine = "guide" /\ iv_pc \in Generators
    /\ \E qs \in {GenerateQuestions(reply)} :
           /\ iv_calls' = Append(iv_calls, Invocation(iv_pc, Len(qs)))
           /\ iv_sections' = IF qs # <<>>
                             THEN Append(iv_sections, InterviewSection(iv_pc, qs))
                             ELSE iv_sections
    /\ iv_pc' = GeneratorAfter(iv_pc, iv_level)
    /\ UNCHANGED <<iv_routine, iv_level, iv_input, iv_result, iv_exc, frameIV>>

\* The totals and the InterviewGuide that generate_interview_guide returns.
AssembleGuide ==
    /\ iv_routine = "guide" /\ iv_pc = "assemble"
    /\ iv_result' = InterviewGuide(iv_sections)
    /\ iv_pc' = "returned"
    /\ UNCHANGED <<iv_routine, iv_level, iv_input, iv_calls, iv_sections, iv_exc, frameIV>>

NextInterview ==
    \/ \E t \in QuestionTexts : CallParseQuestions(t)
    \/ ParseMarkdownInvoke
    \/ \E reply \in MarkdownReplies : ParseMarkdownRespond(reply)
    \/ \E experience_level \in ExperienceLevels : StartGuide(experience_level)
    \/ \E reply \in GeneratorReplies : Generate(reply)
    \/ AssembleGuide

SpecInterview == Init /\ [][NextInterview]_vars

(***************************************************************************)
(* OA_Final: AssessmentAgent.evaluate_assessment.  An evaluation reply is  *)
(* what self.llm.ainvoke and _extract_json give for one answer: the call   *)
(* raised ("request_error"), no JSON object was extracted ("unparsed"), or *)
(* the mapping extracted ("parsed").  In a mapping a score is a whole      *)
(* number and a rating is a number in hundredths.                          *)
(***************************************************************************)
Entry(key, value) == [k |-> key, v |-> value]

\* int(x) of the quotient num / den, den > 0: truncation towards zero.
TruncDiv(num, den) == IF num >= 0 THEN num \div den ELSE 0 - ((0 - num) \div den)

\* round(num / den) of Python 3, den > 0: to the nearest whole number, a
\* tie to the even one.
RoundHalfEven(num, den) ==
    LET q == num \div den
        r == num % den
    IN  IF 2 * r < den THEN q
        ELSE IF 2 * r > den THEN q + 1
        ELSE IF q % 2 = 0 THEN q ELSE q + 1

\* The score normalisation the three evaluators share: a score below 100
\* is capped at max_score and converted with int((score / max_score) * 100).
NormalizedScore(score, max_score) ==
    IF score < 100
    THEN TruncDiv(100 * (IF score > max_score THEN max_score ELSE score), max_score)
    ELSE score

\* The mapping an evaluator returns from its except block or when no JSON
\* was extracted: score 0 and its ratings 0.0.
ErrorEvaluation(q_type, feedback_text) ==
    JObj(<<Entry("score", JNum(0)), Entry("feedback", JStr(feedback_text))>>
         \o (CASE q_type = "coding" -> <<Entry("technical_accuracy", JNum(0))>>
               [] q_type = "system_design" ->
                      <<Entry("architecture_quality", JNum(0)),
                        Entry("scalability_consideration", JNum(0))>>
               [] q_type = "behavioral" -> <<Entry("passion_indicators", JArr(<<>>))>>))

\* len(candidate_answer.split()) of an answer whose words are separated by
\* single spaces.
WordCount(candidate_answer) == CountCh(candidate_answer, " ", Len(candidate_answer)) + 1

\* int(max_score * 0.2) and int(max_score * 0.4) for the weights of the
\* configuration: the products of 4..25 truncate as the exact quotients.
Percentage(max_score, tenths) == (tenths * max_score) \div 10

\* _create_fallback_behavioral_evaluation
_create_fallback_behavioral_evaluation(candidate_answer, max_score) ==
    IF Strip(candidate_answer) = ""
    THEN JObj(<<Entry("score", JNum(0)), Entry("passion_indicators", JArr(<<>>)),
                Entry("feedback", JStr("No response provided."))>>)
    ELSE IF WordCount(candidate_answer) < 20
    THEN JObj(<<Entry("score", JNum(IF Percentage(max_score, 2) > 10
                                     THEN Percentage(max_score, 2) ELSE 10)),
                Entry("passion_indicators", JArr(<<>>)),
                Entry("feedback", JStr("Response is too brief to properly evaluate."))>>)
    ELSE JObj(<<Entry("score", JNum(IF Percentage(max_score, 4) > 40
                                     THEN Percentage(max_score, 4) ELSE 40)),
                Entry("passion_indicators", JArr(<<JStr("Detailed response")>>)),
                Entry("feedback",
                      JStr("Response shows effort, but could not be fully evaluated."))>>)

\* parsed_json with parsed_json["score"] replaced by the score given.
WithScore(parsed_json, score) ==
    JObj([i \in 1..Len(parsed_json.m) |->
              IF parsed_json.m[i].k = "score" THEN Entry("score", JNum(score))
              ELSE parsed_json.m[i]])

\* The branch "if parsed_json:" of an evaluator.  Comparing a score that is
\* no number raises TypeError and dividing by a max_score of 0 raises
\* ZeroDivisionError: both end in the except block of the evaluator.
ParsedEvaluation(q_type, parsed_json, max_score) ==
    IF ~HasKey(parsed_json, "score") THEN parsed_json
    ELSE IF Get(parsed_json, "score").t # "num"
    THEN ErrorEvaluation(q_type, "Error evaluating answer: '<' not supported between "
                                     \o "instances of 'str' and 'int'")
    ELSE IF Get(parsed_json, "score").n < 100 /\ max_score = 0
    THEN ErrorEvaluation(q_type, "Error evaluating answer: division by zero")
    ELSE WithScore(parsed_json, NormalizedScore(Get(parsed_json, "score").n, max_score))

\* Whether the evaluator of the question calls the model for the answer:
\* the behavioral one returns early for a blank answer.
CallsModel(q_type, candidate_answer) ==
    ~(q_type = "behavioral" /\ Strip(candidate_answer) = "")

\* evaluate_answer with the evaluator it dispatches to.
evaluate_answer(question_type, question_data, candidate_answer, reply) ==
    IF ~CallsModel(question_type, candidate_answer)
    THEN _create_fallback_behavioral_evaluation(candidate_answer, question_data.score)
    ELSE CASE reply.kind = "request_error" ->
                  ErrorEvaluation(question_type, "Error evaluating answer: request failed")
           [] reply.kind = "unparsed" ->
                  IF question_type = "behavioral"
                  THEN _create_fallback_behavioral_evaluation(candidate_answer,
                                                               question_data.score)
                  ELSE ErrorEvaluation(question_type,
                                       "Error: Could not parse evaluation response.")
           [] reply.kind = "parsed" ->
                  ParsedEvaluation(question_type, reply.json, question_data.score)

\* The ratings evaluate_assessment appends to technical_ratings for a
\* result of evaluate_answer.
TechnicalRatings(q_type, evaluated) ==
    CASE q_type = "coding" -> <<GetOr(evaluated, "technical_accuracy", JNum(0))>>
      [] q_type = "system_design" ->
             <<GetOr(evaluated, "architecture_quality", JNum(0)),
               GetOr(evaluated, "scalability_consideration", JNum(0))>>
      [] q_type = "behavioral" -> <<>>

\* What passion_indicators_found is extended with for a result.
PassionIndicators(q_type, evaluated) ==
    IF q_type = "behavioral" /\ GetOr(evaluated, "passion_indicators", JArr(<<>>)).t = "arr"
    THEN GetOr(evaluated, "passion_indicators", JArr(<<>>)).a
    ELSE <<>>

RECURSIVE SumOf(_)
SumOf(ns) == IF ns = <<>> THEN 0 ELSE ns[1] + SumOf(Tail(ns))

\* A passing percentage that is the same for every level.
PassingPercentageOfDefault(experience_level) == 70

\* ASSESSMENT_CONFIG.get(level, {}).get("passing_score_percentage", default)
PassingPercentage(experience_level) ==
    CASE experience_level = "junior" -> 65
      [] experience_level = "mid" -> 70
      [] experience_level = "senior" -> 75
      [] OTHER -> 70

\* min(len(passion_indicators_found) / 5.0, 1.0), rounded to hundredths.
PassionRating(found) == IF 20 * Len(found) > 100 THEN 100 ELSE 20 * Len(found)

\* The final scores of evaluate_assessment and its AssessmentResult, with
\* scores the question scores, feedback the feedback values and ratings the
\* technical ratings collected: sum() of a rating that is no number raises
\* TypeError, a feedback that is no string fails the validation.
AssessmentResult(experience_level, scores, feedback, ratings, found) ==
    IF \E i \in 1..Len(ratings) : ratings[i].t # "num"
    THEN [exc |-> "TypeError", rec |-> NoRecord]
    ELSE IF \E i \in 1..Len(feedback) : feedback[i].t # "str"
    THEN [exc |-> "ValidationError", rec |-> NoRecord]
    ELSE [exc |-> "none",
          rec |-> [score |-> IF scores = <<>> THEN 0
                             ELSE RoundHalfEven(SumOf(scores), Len(scores)),
                   passed |-> IF scores = <<>> THEN FALSE
                              ELSE SumOf(scores)
                                       >= PassingPercentage(experience_level) * Len(scores),
                   question_scores |-> scores,
                   feedback |-> [i \in 1..Len(feedback) |-> feedback[i].s],
                   technical_rating |->
                       IF ratings = <<>> THEN 0
                       ELSE RoundHalfEven(SumOf([i \in 1..Len(ratings) |-> ratings[i].n]),
                                          Len(ratings)),
                   passion_rating |-> PassionRating(found)]]

(***************************************************************************)
(* Inputs of the evaluation                                                *)
(***************************************************************************)
MaxQuestions == 2

\* Questions with the least weights of the configuration for mid, and one
\* coding question with the greatest.
EvaluatedQuestions ==
    {[type |-> "coding", score |-> 8], [type |-> "coding", score |-> 15],
     [type |-> "system_design", score |-> 10], [type |-> "behavioral", score |-> 6]}

\* all_questions: the coding questions, then the system design ones, then
\* the behavioral ones.
InVisitOrder(qs) ==
    \A i \in 1..(Len(qs) - 1) : TypeIndex(qs[i].type) <= TypeIndex(qs[i + 1].type)

Assessments ==
    {[level |-> l, questions |-> qs] :
        l \in {"junior", "mid", "senior", "lead"},
        qs \in {x \in UNION {[1..n -> EvaluatedQuestions] : n \in 1..MaxQuestions} :
                    InVisitOrder(x)}}

TwentyWords == "a b c d e f g h i j k l m n o p q r s t"

CandidateAnswers == {"", "1", "We shipped it together.", TwentyWords}

Evaluation(score, rating, indicators, feedback_text) ==
    JObj(<<Entry("score", score), Entry("technical_accuracy", rating),
           Entry("architecture_quality", rating), Entry("scalability_consideration", rating),
           Entry("passion_indicators", indicators), Entry("feedback", feedback_text)>>)

Indicators(n) == JArr([i \in 1..n |-> JStr("passion")])

ParsedEvaluations ==
    {Evaluation(JNum(7), JNum(50), Indicators(2), JStr("good")),
     Evaluation(JNum(12), JNum(100), Indicators(6), JStr("fine")),
     Evaluation(JNum(250), JNum(150), Indicators(0), JStr("great")),
     Evaluation(JNum(0 - 5), JNum(0 - 50), JStr("keen"), JStr("poor")),
     Evaluation(JStr("high"), JNum(100), Indicators(1), JStr("ok")),
     Evaluation(JNum(3), JStr("high"), Indicators(1), JStr("ok")),
     Evaluation(JNum(100), JNum(0), Indicators(3), JLit("null")),
     JObj(<<Entry("feedback", JStr("no score"))>>)}

EvaluationReplies ==
    {[kind |-> "request_error", json |-> JObj(<<>>)],
     [kind |-> "unparsed", json |-> JObj(<<>>)]}
        \cup {[kind |-> "parsed", json |-> e] : e \in ParsedEvaluations}

(***************************************************************************)
(* evaluate_assessment                                                     *)
(***************************************************************************)
\* evaluate_assessment is entered for an assessment.
StartEvaluation(assessment) ==
    /\ ev_pc = "idle"
    /\ ev_assessment' = assessment
    /\ ev_pc' = "loop"
    /\ UNCHANGED <<ev_answered, ev_scores, ev_feedback, ev_ratings, ev_indicators,
                   ev_calls, ev_result, ev_exc, frameEV>>

\* The question the loop is at.
CurrentQuestion == ev_assessment.questions[Len(ev_answered) + 1]

\* One pass of the loop for a question that has an answer: evaluate_answer
\* and the collection of its result.
EvaluateAnswered(candidate_answer, reply) ==
    /\ ev_pc = "loop" /\ Len(ev_answered) < Len(ev_assessment.questions)
    /\ \E r \in {evaluate_answer(CurrentQuestion.type, CurrentQuestion, candidate_answer,
                                 reply)} :
           /\ ev_scores' = Append(ev_scores, GetOr(r, "score", JNum(0)).n)
           /\ ev_feedback' = Append(ev_feedback, GetOr(r, "feedback", JStr("N/A")))
           /\ ev_ratings' = ev_ratings \o TechnicalRatings(CurrentQuestion.type, r)
           /\ ev_indicators' = ev_indicators \o PassionIndicators(CurrentQuestion.type, r)
    /\ ev_calls' = IF CallsModel(CurrentQuestion.type, candidate_answer) THEN ev_calls + 1
                   ELSE ev_calls
    /\ ev_answered' = Append(ev_answered, TRUE)
    /\ UNCHANGED <<ev_pc, ev_assessment, ev_result, ev_exc, frameEV>>

\* One pass of the loop for a question without an answer.
SkipUnanswered ==
    /\ ev_pc = "loop" /\ Len(ev_answered) < Len(ev_assessment.questions)
    /\ ev_scores' = Append(ev_scores, 0)
    /\ ev_feedback' = Append(ev_feedback, JStr("No answer provided."))
    /\ ev_answered' = Append(ev_answered, FALSE)
    /\ UNCHANGED <<ev_pc, ev_assessment, ev_ratings, ev_indicators, ev_calls, ev_result,
                   ev_exc, frameEV>>

\* The final scores and the return of evaluate_assessment.
FinishEvaluation ==
    /\ ev_pc = "loop" /\ Len(ev_answered) = Len(ev_assessment.questions)
    /\ \E r \in {AssessmentResult(ev_assessment.level, ev_scores, ev_feedback, ev_ratings,
                                  ev_indicators)} :
           /\ ev_exc' = r.exc
           /\ ev_result' = r.rec
           /\ ev_pc' = IF r.exc = "none" THEN "returned" ELSE "raised"
    /\ UNCHANGED <<ev_assessment, ev_answered, ev_scores, ev_feedback, ev_ratings,
                   ev_indicators, ev_calls, frameEV>>

NextEvaluation ==
    \/ \E assessment \in Assessments : StartEvaluation(assessment)
    \/ \E candidate_answer \in CandidateAnswers, reply \in EvaluationReplies :
           EvaluateAnswered(candidate_answer, reply)
    \/ SkipUnanswered
    \/ FinishEvaluation

SpecEvaluation == Init /\ [][NextEvaluation]_vars

(***************************************************************************)
(* OA_Final: QuestionGenerator._create_coding_question, from the mapping   *)
(* question_json that _generate_structured_response returned to it.        *)
(***************************************************************************)
default_options ==
    <<"Option A: return array.sort()", "Option B: use quicksort algorithm",
      "Option C: implement merge sort", "Option D: use binary search tree">>

\* QUESTION_WEIGHTS["coding"][level]
CodingWeights(lv) ==
    CASE lv = "junior" -> [min |-> 6, max |-> 12]
      [] lv = "mid" -> [min |-> 8, max |-> 15]
      [] lv = "senior" -> [min |-> 10, max |-> 20]

\* f"Option {chr(65+i)}:" for the 0-based index i.
OptionPrefix(i) == "Option " \o Slice("ABCDEFGHIJ", i, i + 1) \o ":"

\* The loop that gives each option its prefix.
Prefixed_options(options) ==
    [i \in 1..Len(options) |->
        IF StartsWith(options[i], OptionPrefix(i - 1)) THEN options[i]
        ELSE OptionPrefix(i - 1) \o " " \o options[i]]

\* The items a Python loop over the value visits, when all of them are
\* strings: the elements of a list, the characters of a string, the keys of
\* a mapping.
Items(v) ==
    CASE v.t = "arr" -> [i \in 1..Len(v.a) |-> v.a[i]]
      [] v.t = "str" -> [i \in 1..Len(v.s) |-> JStr(Slice(v.s, i - 1, i))]
      [] v.t = "obj" -> [i \in 1..Len(v.m) |-> JStr(v.m[i].k)]

\* "not options" of a JSON value.
Falsy(v) ==
    CASE v.t \in {"arr", "str", "obj"} -> Items(v) = <<>>
      [] v.t = "num" -> v.n = 0
      [] v.t = "lit" -> v.s # "true"

\* The options after the validity test and the prefix loop: the defaults
\* for a value that is falsy, shorter than 4 or holds a blank or a
\* non-string item; len() of a number or of true raises TypeError, and the
\* item assignment raises TypeError on a string and KeyError on a mapping.
CodingOptions(v) ==
    IF Falsy(v) THEN Valid(Prefixed_options(default_options))
    ELSE IF v.t \in {"num", "lit"} THEN Invalid
    ELSE IF Len(Items(v)) < 4
            \/ \E i \in 1..Len(Items(v)) : Items(v)[i].t # "str" \/ Strip(Items(v)[i].s) = ""
    THEN Valid(Prefixed_options(default_options))
    ELSE IF v.t = "arr" THEN Valid(Prefixed_options([i \in 1..Len(v.a) |-> v.a[i].s]))
    ELSE Invalid

\* isinstance(correct_option, int): a whole number, or a bool.
IsPyInt(v) == v.t = "num" \/ (v.t = "lit" /\ v.s \in {"true", "false"})

PyInt(v) == IF v.t = "num" THEN v.n ELSE IF v.s = "true" THEN 1 ELSE 0

\* "Ensure correct_option is valid": tested against the options before
\* they are cut to four.
CorrectOption(v, options) ==
    IF ~IsPyInt(v) THEN 0
    ELSE IF PyInt(v) < 0 \/ PyInt(v) >= Len(options) THEN 0
    ELSE PyInt(v)

\* The weight of the question by its difficulty.
CodingScore(question_json, weights) ==
    IF ~HasKey(question_json, "difficulty") THEN weights.min
    ELSE IF Get(question_json, "difficulty") = JStr("hard") THEN weights.max
    ELSE IF Get(question_json, "difficulty") = JStr("medium")
    THEN (weights.min + weights.max) \div 2
    ELSE weights.min

\* CodingQuestion(...) with options[:4]; a field of the wrong type fails
\* the validation.
CodingQuestion(question_json, options, correct_option, score) ==
    IF /\ StrField(GetOr(question_json, "text", JStr("Write a function"))).ok
       /\ StrField(GetOr(question_json, "explanation", JStr("This tests"))).ok
       /\ StrField(GetOr(question_json, "difficulty", JStr("medium"))).ok
       /\ StrListField(GetOr(question_json, "skills_tested", JArr(<<>>))).ok
       /\ StrListField(GetOr(question_json, "performance_indicators", JArr(<<>>))).ok
    THEN [exc |-> "none",
          rec |-> [type |-> "coding", options |-> SubSeq(options, 1, 4),
                   correct_option |-> correct_option,
                   difficulty |-> GetOr(question_json, "difficulty", JStr("medium")).s,
                   score |-> score]]
    ELSE [exc |-> "ValidationError", rec |-> NoRecord]

\* _create_coding_question after its await, for the value raw of
\* question_json.get("options", default_options).
CreateCodingWith(question_json, lv, raw, options) ==
    IF ~options.ok
    THEN [exc |-> IF raw.t = "obj" THEN "KeyError" ELSE "TypeError", rec |-> NoRecord]
    ELSE CodingQuestion(question_json, options.val,
                        CorrectOption(GetOr(question_json, "correct_option", JNum(0)),
                                      options.val),
                        CodingScore(question_json, CodingWeights(lv)))

CreateCodingFrom(question_json, lv, raw) ==
    CreateCodingWith(question_json, lv, raw, CodingOptions(raw))

_create_coding_question(question_json, lv) ==
    CreateCodingFrom(question_json, lv,
                     GetOr(question_json, "options",
                           JArr([i \in 1..4 |-> JStr(default_options[i])])))

(***************************************************************************)
(* Structured responses                                                    *)
(***************************************************************************)
OptionTexts ==
    <<"Option A: O(n)", "Option B: O(n log n)", "O(n^2)", "Option D: O(2^n)", "O(1)",
      "O(n!)">>

OptionList(n) == JArr([i \in 1..n |-> JStr(OptionTexts[i])])

OptionsReturned ==
    {OptionList(0), OptionList(3), OptionList(4), OptionList(5), OptionList(6),
     JArr(<<JStr("a"), JStr(" "), JStr("c"), JStr("d")>>),
     JArr(<<JStr("a"), JNum(2), JStr("c"), JStr("d")>>),
     JStr("abcd"), JStr("a b c d"), JNum(5), JLit("null"),
     JObj(<<Entry("a", JStr("1")), Entry("b", JStr("2")), Entry("c", JStr("3")),
            Entry("d", JStr("4"))>>)}

CorrectOptionsReturned ==
    {JNum(0 - 1), JNum(0), JNum(2), JNum(3), JNum(4), JNum(5), JNum(9), JStr("2"),
     JLit("null"), JLit("true")}

DifficultiesReturned == {JStr("easy"), JStr("medium"), JStr("hard"), JNum(3)}

\* The mapping with the members given; a member that is <<>> is absent.
Members(options, correct_option, difficulty) ==
    JObj((IF options = <<>> THEN <<>> ELSE <<Entry("options", options[1])>>)
         \o (IF correct_option = <<>> THEN <<>>
             ELSE <<Entry("correct_option", correct_option[1])>>)
         \o (IF difficulty = <<>> THEN <<>> ELSE <<Entry("difficulty", difficulty[1])>>)
         \o <<Entry("text", JStr("What is the worst case of quicksort?"))>>)

Optional(S) == {<<>>} \cup {<<x>> : x \in S}

StructuredResponses ==
    {Members(o, c, d) : o \in Optional(OptionsReturned),
                        c \in Optional(CorrectOptionsReturned),
                        d \in Optional(DifficultiesReturned)}
        \cup {JObj(<<Entry("text", JNum(1))>>)}

(***************************************************************************)
(* _create_coding_question as a step                                       *)
(***************************************************************************)
CreateCodingQuestion(lv, question_json) ==
    /\ cq_pc = "idle"
    /\ cq_input' = [level |-> lv, question_json |-> question_json]
    /\ \E r \in {_create_coding_question(question_json, lv)} :
           /\ cq_result' = r
           /\ cq_pc' = IF r.exc = "none" THEN "returned" ELSE "raised"
    /\ UNCHANGED frameCQ

NextCoding ==
    \E lv \in Levels, question_json \in StructuredResponses :
        CreateCodingQuestion(lv, question_json)

SpecCoding == Init /\ [][NextCoding]_vars

(***************************************************************************)
(* JD Final: utils/validators.py, agents/jd_generator.py,                  *)
(* agents/job_poster.py, chains/workflow.py                                *)
(***************************************************************************)
\* validators.py: required_fields, in order.
required_fields ==
    <<"company_name", "cultural_fit_factors", "personality_traits",
      "work_experience", "technology_domain", "tools", "role_title",
      "core_responsibilities", "skills_competencies", "education_requirements",
      "specialized_role_focus">>

list_fields == <<"cultural_fit_factors", "personality_traits", "technology_domain", "tools">>

\* form_template.py: the options of the specialized_role_focus field.
valid_roles ==
    {"Machine Learning Engineer", "UX Researcher", "Product Designer",
     "Langchain Dev", "Backend Developer", "Full Stack Developer",
     "Project Manager", "Machine Learning Research Scientist", "SAP architect",
     "Sales Representative"}

valid_types == {"Full-Time", "Part-Time", "Contract", "Freelance"}

\* field not in job_input or not job_input[field]
MissingField(job_input, field) ==
    ~HasKey(job_input, field) \/ Falsy(Get(job_input, field))

\* field in job_input and not isinstance(job_input[field], list)
NotAList(job_input, field) ==
    HasKey(job_input, field) /\ Get(job_input, field).t # "arr"

\* errors.append of one message for each field that fails its check, in the
\* order of the fields.
FieldErrors(failing, before, after) ==
    [i \in 1..Len(failing) |-> before \o failing[i] \o after]

\* The check of a field against a fixed list of strings; the value is
\* formatted into the message (the inputs give these fields strings).
ChoiceErrors(job_input, field, choices, message) ==
    IF HasKey(job_input, field)
       /\ ~(Get(job_input, field).t = "str" /\ Get(job_input, field).s \in choices)
    THEN <<message \o Get(job_input, field).s>>
    ELSE <<>>

\* validate_job_input: the errors list; is_valid is errors = <<>>.
validate_job_input(job_input) ==
    FieldErrors(SelectSeq(required_fields, LAMBDA field : MissingField(job_input, field)),
                "Missing required field: ", "")
    \o FieldErrors(SelectSeq(list_fields, LAMBDA field : NotAList(job_input, field)),
                   "Field ", " must be a list")
    \o ChoiceErrors(job_input, "specialized_role_focus", valid_roles,
                    "Invalid role focus: ")
    \o ChoiceErrors(job_input, "employment_type", valid_types,
                    "Invalid employment type: ")

\* jd_generator.py: JobInput(**job_input). The required fields, the
\* Optional[str] fields (None allowed) and the fields with a default.
OptionalStrField(v) == IF v.t = "lit" /\ v.s = "null" THEN Valid("None") ELSE StrField(v)

JobInputFields ==
    <<"company_name", "cultural_fit_factors", "personality_traits",
      "work_experience", "technology_domain", "tools", "role_title",
      "core_responsibilities", "skills_competencies", "education_requirements",
      "specialized_role_focus", "unique_skills", "key_deliverables", "location",
      "employment_type">>

JobInputField(job_input, key) ==
    CASE key \in {"cultural_fit_factors", "personality_traits", "technology_domain",
                  "tools"} -> Required(job_input, key, StrListField)
      [] key \in {"unique_skills", "key_deliverables"} ->
             Field(job_input, key, OptionalStrField, "None")
      [] key = "location" -> Field(job_input, key, StrField, "Remote | Hybrid")
      [] key = "employment_type" -> Field(job_input, key, StrField, "Full-Time")
      [] OTHER -> Required(job_input, key, StrField)

\* The JobInput object, or ValidationError (ok = FALSE).
JobInput(job_input) ==
    LET fields == [i \in 1..Len(JobInputFields) |->
                       JobInputField(job_input, JobInputFields[i])]
    IN  IF \A i \in 1..Len(fields) : fields[i].ok
        THEN Valid([i \in 1..Len(fields) |-> fields[i].val])
        ELSE Invalid

\* The value of a field of a JobInput object.
Attr(job_input_obj, key) ==
    job_input_obj[CHOOSE i \in 1..Len(JobInputFields) : JobInputFields[i] = key]

\* str(e) of the ValidationError, its first line.
ValidationErrorText == "1 validation error for JobInput"

\* The outcomes of one provider call: the text of the completion, an
\* exception of the provider, and for Gemini a blocked or empty response.
ProviderText(t) == [kind |-> "text", text |-> t]

ProviderRaises == [kind |-> "raises", text |-> "quota exceeded"]

ProviderBlocked == [kind |-> "blocked", text |-> ""]

\* _get_completion: the text, the fixed text of _get_gemini_completion for a
\* blocked response, and for an exception of the provider the message that
\* is returned in place of the text. It never raises.
_get_completion(outcome) ==
    CASE outcome.kind = "text" -> outcome.text
      [] outcome.kind = "blocked" ->
             "The AI model didn't generate a response for this prompt. Please try different wording."
      [] outcome.kind = "raises" ->
             "Error generating content. Please check your API key and configuration. Error: "
             \o outcome.text

\* The six prompts of generate_jd, in the order of the calls.
Prompts ==
    <<"company_intro", "role_overview", "responsibilities", "qualifications",
      "benefits", "tech_environment">>

Section(sections, name) ==
    sections[CHOOSE i \in 1..Len(Prompts) : Prompts[i] = name]

\* templates/jd_template.py: JD_TEMPLATE.substitute(...)
JD_TEMPLATE(role_title, location, employment_type, sections) ==
    "\n# **" \o role_title \o "**\n"
    \o "**Location:** " \o location \o "  \n"
    \o "**Employment Type:** " \o employment_type \o "\n\n---\n\n"
    \o "## **About the Company**\n" \o Section(sections, "company_intro")
    \o "\n\n---\n\n"
    \o "## **Role Overview**\n" \o Section(sections, "role_overview")
    \o "\n\n---\n\n"
    \o "## **Key Responsibilities**\n" \o Section(sections, "responsibilities")
    \o "\n\n---\n\n"
    \o "## **Qualifications & Skills**\n" \o Section(sections, "qualifications")
    \o "\n\n---\n\n"
    \o "## **What We Offer**\n" \o Section(sections, "benefits")
    \o "\n\n---\n\n"
    \o "## **Technical Environment**\n" \o Section(sections, "tech_environment")
    \o "\n\n---\n\n"
    \o "*We are an equal opportunity employer and value diversity. We do not discriminate based on race, religion, color, national origin, gender, sexual orientation, age, marital status, or disability status.*\n"

\* generate_jd once the six completions are in: the filled template,
\* stripped.
generate_jd(job_input_obj, sections) ==
    Strip(JD_TEMPLATE(Attr(job_input_obj, "role_title"),
                      Attr(job_input_obj, "location"),
                      Attr(job_input_obj, "employment_type"), sections))

\* job_poster.py. JOB_PLATFORMS, in the order of the dictionary.
Platforms == <<"twitter", "naukri", "google_jobs", "upwork">>

PositionMark == "**Position:**"

LocationMark == "**Location:**"

EmploymentMark == "**Employment Type:**"

\* line.replace(mark, "")
RECURSIVE Without(_, _)
Without(line, mark) ==
    LET i == FindStr(line, mark, 0)
    IN  IF i < 0 THEN line
        ELSE Slice(line, 0, i) \o Without(From(line, i + Len(mark)), mark)

\* What the if/elif loop over the lines leaves in a variable: the value of
\* the last line that reaches the branch of the mark, "" when none does.
LastMarked(lines, mark, earlier) ==
    LET hits == {i \in 1..Len(lines) :
                    /\ Contains(lines[i], mark)
                    /\ \A e \in earlier : ~Contains(lines[i], e)}
    IN  IF hits = {} THEN ""
        ELSE Strip(Without(lines[CHOOSE i \in hits : \A j \in hits : j <= i], mark))

\* next((line for line in lines if word in line), "").replace(mark, "").strip()
FirstWith(lines, word, mark) ==
    LET hits == {i \in 1..Len(lines) : Contains(lines[i], word)}
    IN  IF hits = {} THEN ""
        ELSE Strip(Without(lines[CHOOSE i \in hits : \A j \in hits : i <= j], mark))

\* The tweet: cut to 280 characters.
TweetText(role_title, location) ==
    LET summary == "We're hiring! " \o role_title \o " - " \o location
                   \o ". Apply now! #JobOpening #Hiring #Careers"
    IN  IF Len(summary) > 280 THEN Slice(summary, 0, 277) \o "..." ELSE summary

\* The mapping of the employment type to the format of Google.
EmploymentTypes(employment_type) ==
    IF Contains(employment_type, "Full-Time") THEN <<"FULL_TIME">>
    ELSE IF Contains(employment_type, "Part-Time") THEN <<"PART_TIME">>
    ELSE IF Contains(employment_type, "Contract") THEN <<"CONTRACTOR">>
    ELSE IF Contains(employment_type, "Freelance") THEN <<"TEMPORARY">>
    ELSE <<"FULL_TIME">>

\* format_for_platform, from the lines of the job description.
format_for_platform(job_description, lines, platform) ==
    CASE platform = "twitter" ->
             [text |-> TweetText(LastMarked(lines, PositionMark, {}),
                                 LastMarked(lines, LocationMark, {PositionMark}))]
      [] platform = "google_jobs" ->
             [title |-> LastMarked(lines, PositionMark, {}),
              description |-> job_description,
              addresses |-> <<LastMarked(lines, LocationMark, {PositionMark})>>,
              employment_types |->
                  EmploymentTypes(LastMarked(lines, EmploymentMark,
                                             {PositionMark, LocationMark}))]
      [] platform = "naukri" ->
             [title |-> FirstWith(lines, "Position:", PositionMark),
              location |-> FirstWith(lines, "Location:", LocationMark),
              description |-> job_description,
              employmentType |-> "FULL_TIME"]
      [] platform = "upwork" ->
             [title |-> FirstWith(lines, "Position:", PositionMark),
              description |-> job_description,
              category |-> "Web, Mobile & Software Dev",
              subcategory |-> "Web Development",
              budget |-> [amount |-> 1000, currencyCode |-> "USD"]]

\* mock_post_job: the preview of one platform.
Preview(platform, formatted_job) ==
    CASE platform = "twitter" -> "Would tweet: " \o DQ \o formatted_job.text \o DQ
      [] platform = "google_jobs" ->
             "Would post job: " \o DQ \o formatted_job.title \o DQ \o " to Google Jobs"
      [] platform = "naukri" ->
             "Would post job: " \o DQ \o formatted_job.title \o DQ \o " to Naukri"
      [] platform = "upwork" ->
             "Would post job: " \o DQ \o formatted_job.title \o DQ \o " to Upwork"

MockResult(platform, formatted_job) ==
    [platform |-> platform, success |-> TRUE,
     message |-> "PREVIEW MODE: " \o Preview(platform, formatted_job),
     formatted_data |-> formatted_job]

\* mock_post_job: an entry for every platform of the configuration; no
\* client is called.
mock_post_job(job_description, lines) ==
    [results |-> [i \in 1..Len(Platforms) |->
                      MockResult(Platforms[i],
                                 format_for_platform(job_description, lines,
                                                     Platforms[i]))],
     client_calls |-> <<>>]

\* The outcomes of a call of a platform client: an identifier, a response
\* without one, an exception.
ClientOutcomes == {"posted", "empty", "raises"}

LiveEntry(platform, success, message) ==
    [platform |-> platform, success |-> success, message |-> message]

\* post_job, the body of the loop for one platform.
LiveResult(platform, enabled, outcome) ==
    CASE platform \notin enabled -> LiveEntry(platform, FALSE, "Platform not enabled")
      [] platform \in enabled /\ platform \in {"twitter", "google_jobs"}
             /\ outcome[platform] = "raises" ->
             LiveEntry(platform, FALSE, "Error: connection refused")
      [] platform \in enabled /\ platform = "twitter"
             /\ outcome[platform] = "posted" ->
             LiveEntry(platform, TRUE, "Posted to Twitter. Tweet ID: 1")
      [] platform \in enabled /\ platform = "twitter"
             /\ outcome[platform] = "empty" ->
             LiveEntry(platform, FALSE, "Failed to post to Twitter")
      [] platform \in enabled /\ platform = "google_jobs"
             /\ outcome[platform] = "posted" ->
             LiveEntry(platform, TRUE, "Posted to Google Jobs. Job ID: jobs/1")
      [] platform \in enabled /\ platform = "google_jobs"
             /\ outcome[platform] = "empty" ->
             LiveEntry(platform, FALSE, "Failed to post to Google Jobs")
      [] platform \in enabled /\ platform = "naukri" ->
             LiveEntry(platform, FALSE,
                       "Naukri integration not implemented. Add API integration code here.")
      [] platform \in enabled /\ platform = "upwork" ->
             LiveEntry(platform, FALSE,
                       "Upwork integration not implemented. Add API integration code here.")

\* The client method post_job calls for a platform.
ClientMethod(platform) == IF platform = "twitter" THEN "create_tweet" ELSE "create_job"

\* post_job with the test of preview_mode left out: the loop over the
\* platforms whatever the mode.
post_job_live(preview_mode, enabled, job_description, lines, outcome) ==
    [results |-> [i \in 1..Len(Platforms) |->
                      LiveResult(Platforms[i], enabled, outcome)],
     client_calls |->
         [c \in 1..Len(SelectSeq(Platforms,
                                 LAMBDA p : p \in enabled
                                            /\ p \in {"twitter", "google_jobs"})) |->
              ClientMethod(SelectSeq(Platforms,
                                     LAMBDA p : p \in enabled
                                                /\ p \in {"twitter", "google_jobs"})[c])]]

\* post_job: mock_post_job in preview mode, else the loop over the
\* platforms, each in its own try block.
post_job(preview_mode, enabled, job_description, lines, outcome) ==
    IF preview_mode THEN mock_post_job(job_description, lines)
    ELSE post_job_live(preview_mode, enabled, job_description, lines, outcome)

\* chains/workflow.py. The state dictionary run_workflow creates.
StartedState ==
    [job_description |-> "", posting_results |-> <<>>, errors |-> <<>>,
     status |-> "started"]

\* The state returned for an invalid input, with the errors left out.
InvalidStateWithoutErrors(state, validation_errors) ==
    [state EXCEPT !.status = "input_invalid"]

\* Step 1, "if not is_valid": the state returned.
InvalidState(state, validation_errors) ==
    [state EXCEPT !.errors = validation_errors, !.status = "input_invalid"]

\* The except blocks of step 2 and step 3.
ErrorState(state, label, message) ==
    [state EXCEPT !.errors = Append(@, label \o message), !.status = "error"]

\* The job inputs: mappings as the form and the command line build them.
BaseInput ==
    <<Entry("company_name", JStr("Acme")),
      Entry("cultural_fit_factors", JArr(<<JStr("Ownership")>>)),
      Entry("personality_traits", JArr(<<JStr("Curious")>>)),
      Entry("work_experience", JStr("3 years")),
      Entry("technology_domain", JArr(<<JStr("ML")>>)),
      Entry("tools", JArr(<<JStr("Git")>>)),
      Entry("role_title", JStr("Engineer")),
      Entry("core_responsibilities", JStr("Build")),
      Entry("skills_competencies", JStr("Python")),
      Entry("education_requirements", JStr("BSc")),
      Entry("specialized_role_focus", JStr("Backend Developer"))>>

Omitting(entries, key) == SelectSeq(entries, LAMBDA e : e.k # key)

ValidInputs ==
    {JObj(BaseInput),
     JObj(DictPut(DictPut(DictPut(BaseInput, "location", JStr("Pune")),
                          "employment_type", JStr("Contract")),
                  "key_deliverables", JLit("null")))}

\* Inputs validate_job_input accepts and JobInput rejects.
UnbuildableInputs ==
    {JObj(DictPut(BaseInput, "work_experience", JArr(<<JStr("3 years")>>))),
     JObj(DictPut(BaseInput, "tools", JArr(<<JArr(<<JStr("Git")>>)>>)))}

InvalidInputs ==
    {JObj(Omitting(BaseInput, "company_name")),
     JObj(Omitting(BaseInput, "specialized_role_focus")),
     JObj(DictPut(BaseInput, "cultural_fit_factors", JArr(<<>>))),
     JObj(DictPut(BaseInput, "tools", JStr(""))),
     JObj(DictPut(BaseInput, "tools", JStr("Git"))),
     JObj(DictPut(BaseInput, "specialized_role_focus", JStr("Astronaut"))),
     JObj(DictPut(BaseInput, "employment_type", JStr("Gig"))),
     JObj(<<>>)}

JobInputs == ValidInputs \cup UnbuildableInputs \cup InvalidInputs

\* LLM_PROVIDER as the environment gives it.
Providers == {"openai", "Gemini", "cohere"}

\* PREVIEW_MODE, the platforms enabled in the environment and the clients
\* setup_platforms fails to set up.
Deployment(preview_mode, enabled, broken) ==
    [preview |-> preview_mode, enabled |-> enabled, broken |-> broken]

Deployments ==
    {Deployment(TRUE, {}, {}),
     Deployment(TRUE, {"twitter", "google_jobs"}, {}),
     Deployment(FALSE, {}, {}),
     Deployment(FALSE, {"twitter", "google_jobs"}, {"google_jobs"}),
     Deployment(FALSE, {"twitter", "naukri", "google_jobs", "upwork"}, {})}

\* The texts a provider returns.
ProviderOutcomes(provider) ==
    {ProviderText("Text."), ProviderRaises}
    \cup (IF provider = "gemini" THEN {ProviderBlocked} ELSE {})

\* run_workflow up to the state dictionary: JDGenerator() raises
\* ValueError for an unsupported provider, setup_platforms disables the
\* platforms whose client it cannot set up.
StartWorkflow(job_input, provider, preview_mode, enabled, broken) ==
    /\ jd_pc = "idle"
    /\ jd_input' = job_input
    /\ jd_sections' = <<>>
    /\ jd_failures' = {}
    /\ jd_llm_calls' = 0
    /\ jd_posts' = 0
    /\ jd_client_calls' = <<>>
    /\ IF Lower(provider) \in {"openai", "gemini"}
       THEN /\ jd_config' = [provider |-> Lower(provider), preview |-> preview_mode,
                             enabled |-> enabled \ broken]
            /\ jd_state' = StartedState
            /\ jd_pc' = "started"
       ELSE /\ jd_config' = [provider |-> Lower(provider), preview |-> preview_mode,
                             enabled |-> enabled]
            /\ jd_state' = NoState
            /\ jd_pc' = "raised"
    /\ UNCHANGED frameJD

\* Step 1: validate_job_input.
ValidateInput ==
    /\ jd_pc = "started"
    /\ \E validation_errors \in {validate_job_input(jd_input)} :
           IF validation_errors # <<>>
           THEN /\ jd_state' = InvalidState(jd_state, validation_errors)
                /\ jd_pc' = "returned"
           ELSE /\ jd_state' = [jd_state EXCEPT !.status = "input_valid"]
                /\ jd_pc' = "validated"
    /\ UNCHANGED <<jd_input, jd_config, jd_sections, jd_failures, jd_llm_calls,
                   jd_posts, jd_client_calls, frameJD>>

\* Step 2, JobInput(**job_input): a ValidationError is caught by the except
\* block of the step.
BuildJobInput ==
    /\ jd_pc = "validated"
    /\ IF JobInput(jd_input).ok
       THEN /\ jd_pc' = "generating"
            /\ UNCHANGED jd_state
       ELSE /\ jd_state' = ErrorState(jd_state, "JD Generation Error: ",
                                      ValidationErrorText)
            /\ jd_pc' = "returned"
    /\ UNCHANGED <<jd_input, jd_config, jd_sections, jd_failures, jd_llm_calls,
                   jd_posts, jd_client_calls, frameJD>>

\* Step 2, one _get_completion call of generate_jd.
GetCompletion(outcome) ==
    /\ jd_pc = "generating"
    /\ Len(jd_sections) < Len(Prompts)
    /\ jd_sections' = Append(jd_sections, _get_completion(outcome))
    /\ jd_failures' = IF outcome.kind = "raises"
                      THEN jd_failures \cup {Prompts[Len(jd_sections) + 1]}
                      ELSE jd_failures
    /\ jd_llm_calls' = jd_llm_calls + 1
    /\ UNCHANGED <<jd_pc, jd_input, jd_config, jd_state, jd_posts, jd_client_calls,
                   frameJD>>

\* Step 2, the template filled and the state updated.
FillTemplate ==
    /\ jd_pc = "generating"
    /\ Len(jd_sections) = Len(Prompts)
    /\ jd_state' = [jd_state EXCEPT
                        !.job_description =
                            generate_jd(JobInput(jd_input).val, jd_sections),
                        !.status = "jd_generated"]
    /\ jd_pc' = "generated"
    /\ UNCHANGED <<jd_input, jd_config, jd_sections, jd_failures, jd_llm_calls,
                   jd_posts, jd_client_calls, frameJD>>

\* The outcomes of the clients post_job calls; a client that is not called
\* has no outcome, one value stands for it.
ClientOutcomesOf(platform) ==
    IF ~jd_config.preview /\ platform \in jd_config.enabled
    THEN ClientOutcomes ELSE {"posted"}

\* Step 3: post_job, which catches the exceptions of every platform, and
\* the state returned.
PostJob(outcome) ==
    /\ jd_pc = "generated"
    /\ \E r \in {post_job(jd_config.preview, jd_config.enabled,
                          jd_state.job_description,
                          SplitLines(jd_state.job_description), outcome)} :
           /\ jd_state' = [jd_state EXCEPT !.posting_results = r.results,
                                           !.status = "completed"]
           /\ jd_client_calls' = r.client_calls
    /\ jd_posts' = jd_posts + 1
    /\ jd_pc' = "returned"
    /\ UNCHANGED <<jd_input, jd_config, jd_sections, jd_failures, jd_llm_calls,
                   frameJD>>

NextJD ==
    \/ \E job_input \in JobInputs, provider \in Providers, d \in Deployments :
           StartWorkflow(job_input, provider, d.preview, d.enabled, d.broken)
    \/ ValidateInput
    \/ BuildJobInput
    \/ \E outcome \in ProviderOutcomes(jd_config.provider) : GetCompletion(outcome)
    \/ FillTemplate
    \/ \E tw \in ClientOutcomesOf("twitter"), gj \in ClientOutcomesOf("google_jobs") :
           PostJob([twitter |-> tw, google_jobs |-> gj])

SpecJD == Init /\ [][NextJD]_vars

(***************************************************************************)
(* DecisionFeedbackAgent.clean_json_response, statement by statement       *)
(***************************************************************************)
\* Step 3 entered again after it has run: the fault the bound on the
\* insertions has to detect.
AfterStructuralAgain == "structural"

\* The statement that follows step 3: step 4, the line-by-line repair.
AfterStructural == "lines"

\* A return statement of clean_json_response.
CleanReturn(text) ==
    /\ dc_result' = text
    /\ dc_pc' = "returned"

\* The fence removal and the object extraction.
CleanInvoke(response_text) ==
    /\ dc_pc = "idle"
    /\ dc_input' = response_text
    /\ dc_text' = StripFence(response_text)
    /\ dc_inserts' = 0
    /\ dc_result' = ""
    /\ dc_pc' = "stripped"
    /\ UNCHANGED frameDC

\* The first parse; when it fails, the substitutions of step 1.
CleanParseStripped ==
    /\ dc_pc = "stripped"
    /\ IF IsJson(dc_text)
       THEN CleanReturn(dc_text) /\ UNCHANGED dc_text
       ELSE dc_text' = BasicFixes(dc_text) /\ dc_pc' = "fixed" /\ UNCHANGED dc_result
    /\ UNCHANGED <<dc_input, dc_inserts, frameDC>>

\* Step 2: the parse after the substitutions.
CleanParseFixed ==
    /\ dc_pc = "fixed"
    /\ IF IsJson(dc_text)
       THEN CleanReturn(dc_text)
       ELSE dc_pc' = "structural" /\ UNCHANGED dc_result
    /\ UNCHANGED <<dc_input, dc_text, dc_inserts, frameDC>>

\* Step 3: the patch at the line and column of the error e2; there is no
\* loop around it.
CleanStructural ==
    /\ dc_pc = "structural"
    /\ \E e2 \in {JsonLoads(dc_text)} :
           /\ dc_text' = StructuralErrFix(dc_text, e2)
           /\ dc_inserts' = IF e2.err = "Expecting ',' delimiter" /\ dc_text' # dc_text
                            THEN dc_inserts + 1 ELSE dc_inserts
    /\ dc_pc' = AfterStructural
    /\ UNCHANGED <<dc_input, dc_result, frameDC>>

\* Step 4: the loop over the lines and the parse of the result.
CleanLineRepair ==
    /\ dc_pc = "lines"
    /\ dc_text' = StructuralLineRepair(dc_text)
    /\ IF IsJson(dc_text')
       THEN CleanReturn(dc_text')
       ELSE dc_pc' = "delimiter" /\ UNCHANGED dc_result
    /\ UNCHANGED <<dc_input, dc_inserts, frameDC>>

\* fix_decision_delimiter_error and the last return.
CleanDelimiter ==
    /\ dc_pc = "delimiter"
    /\ \E fixed_json \in {fix_decision_delimiter_error(dc_text)} :
           CleanReturn(IF IsJson(fixed_json) THEN fixed_json ELSE dc_text)
    /\ UNCHANGED <<dc_input, dc_text, dc_inserts, frameDC>>

CleanSteps ==
    \/ CleanParseStripped
    \/ CleanParseFixed
    \/ CleanStructural
    \/ CleanLineRepair
    \/ CleanDelimiter

NextClean ==
    \/ \E t \in Completions : CleanInvoke(t)
    \/ CleanSteps

\* The positions between the call and the return.
Running == {"stripped", "fixed", "structural", "lines", "delimiter"}

\* The interpreter executes the statement the routine stands at: the position
\* moves.  Every step of CleanSteps is guarded by the position alone, so a
\* running routine always has its next statement to execute.
CleanAdvance ==
    /\ dc_pc \in Running
    /\ dc_pc' \in (Running \cup {"returned"}) \ {dc_pc}

\* The routine is plain sequential code: no statement of it waits.
SpecClean == Init /\ [][NextClean]_vars /\ WF_dc_pc(CleanAdvance)

(***************************************************************************)
(* Schemas of the returned records                                         *)
(***************************************************************************)
IsStr(x) == x \in STRING

\* List[str]
IsStrList(x) == \A i \in 1..Len(x) : x[i] \in STRING

\* Optional[str]
IsOptStr(x) == IsStrList(x) /\ Len(x) <= 1

InRange(x, lo, hi) == x \in Int /\ lo <= x /\ x <= hi

DecisionSchema(r) ==
    /\ DOMAIN r = {"decision", "rationale", "recommendations", "hiring_manager_notes",
                   "next_steps"}
    /\ DOMAIN r.decision = {"status", "confidence_score", "interview_stage"}
    /\ IsStr(r.decision.status) /\ IsStr(r.decision.interview_stage)
    /\ InRange(r.decision.confidence_score, 0, 100)
    /\ DOMAIN r.rationale = {"key_strengths", "concerns", "risk_factors"}
    /\ \A k \in DOMAIN r.rationale : IsStrList(r.rationale[k])
    /\ DOMAIN r.recommendations = {"interview_focus", "skill_verification",
                                   "discussion_points"}
    /\ \A k \in DOMAIN r.recommendations : IsStrList(r.recommendations[k])
    /\ DOMAIN r.hiring_manager_notes = {"salary_band_fit", "growth_trajectory",
                                        "team_fit_considerations", "onboarding_requirements"}
    /\ IsStr(r.hiring_manager_notes.salary_band_fit)
    /\ IsStr(r.hiring_manager_notes.growth_trajectory)
    /\ IsStr(r.hiring_manager_notes.team_fit_considerations)
    /\ IsStrList(r.hiring_manager_notes.onboarding_requirements)
    /\ DOMAIN r.next_steps = {"immediate_actions", "required_approvals",
                              "timeline_recommendation"}
    /\ IsStrList(r.next_steps.immediate_actions)
    /\ IsStrList(r.next_steps.required_approvals)
    /\ IsStr(r.next_steps.timeline_recommendation)

BreakdownSchema(b) ==
    /\ DOMAIN b = {"score", "details"}
    /\ InRange(b.score, 0, 100) /\ IsStrList(b.details)

MatchSchema(r) ==
    /\ DOMAIN r = {"overall_match_score", "skills_match", "experience_match",
                   "education_match", "additional_insights",
                   "recommended_interview_questions"}
    /\ InRange(r.overall_match_score, 0, 100)
    /\ BreakdownSchema(r.skills_match) /\ BreakdownSchema(r.experience_match)
    /\ BreakdownSchema(r.education_match)
    /\ IsStrList(r.additional_insights) /\ IsStrList(r.recommended_interview_questions)

ResumeSchema(r) ==
    /\ DOMAIN r = {"personal_info", "summary", "education", "experience", "skills",
                   "projects", "certifications"}
    /\ DOMAIN r.personal_info = {"name", "email", "phone", "location"}
    /\ IsStr(r.personal_info.name) /\ IsStr(r.personal_info.email)
    /\ IsOptStr(r.personal_info.phone) /\ IsOptStr(r.personal_info.location)
    /\ IsOptStr(r.summary)
    /\ \A k \in {"education", "experience", "skills", "projects", "certifications"} :
           r[k] = <<>>

SchemaValid(a, r) ==
    CASE a = "parse_resume" -> ResumeSchema(r)
      [] a = "match_job" -> MatchSchema(r)
      [] a = "generate_decision" -> DecisionSchema(r)


(***************************************************************************)
(* Properties                                                              *)
(***************************************************************************)
\* C1: whatever the outcome of the LLM call (the request raises, the
\* envelope is malformed, the content is null or any completion text), an
\* orchestrator never raises to its caller and the record it returns is
\* valid against its schema.
C1_NeverRaisesSchemaValid ==
    /\ pc # "raised"
    /\ pc = "returned" /\ agent \in Orchestrators => SchemaValid(agent, result)

\* generate_decision has returned its default record after an exception
\* (json.loads of a null content) left its try block.
C1_Witness ==
    /\ agent = "generate_decision" /\ pc = "returned" /\ llm = NoContent
    /\ path = "exception" /\ result = create_default_decision

\* C2: when the text left by the fence/prose stripping parses as strict
\* JSON, either clean_json_response returns that text and no repair
\* substitution has altered it.  White space around the returned text is
\* not counted as an alteration.
C2_StrictJsonReturnedUnaltered ==
    agent \in CleanRoutines /\ pc = "returned" /\ IsJson(StripFence(input))
        => Strip(cleaned) = Strip(StripFence(input))

\* The schema of DecisionFeedback as data: the type of every field of
\* every section, and the default of every section.
FieldTypes ==
    [decision |-> [status |-> "str", confidence_score |-> "int", interview_stage |-> "str"],
     rationale |-> [key_strengths |-> "list", concerns |-> "list", risk_factors |-> "list"],
     recommendations |-> [interview_focus |-> "list", skill_verification |-> "list",
                          discussion_points |-> "list"],
     hiring_manager_notes |-> [salary_band_fit |-> "str", growth_trajectory |-> "str",
                               team_fit_considerations |-> "str",
                               onboarding_requirements |-> "list"],
     next_steps |-> [immediate_actions |-> "list", required_approvals |-> "list",
                     timeline_recommendation |-> "str"]]

SectionDefaults ==
    [decision |-> DecisionDetailsDefault, rationale |-> RationaleDefault,
     recommendations |-> RecommendationDefault,
     hiring_manager_notes |-> HiringManagerNotesDefault, next_steps |-> NextStepsDefault]

Clamp(lo, hi, v) == IF v < lo THEN lo ELSE IF v > hi THEN hi ELSE v

Checked(type, v) ==
    CASE type = "str" -> StrField(v)
      [] type = "int" -> IntField(v)
      [] type = "list" -> StrListField(v)

\* The supplied fields of a section that violate their type.
BadFields(sec, v) ==
    {k \in DOMAIN FieldTypes[sec] : HasKey(v, k) /\ ~Checked(FieldTypes[sec][k], Get(v, k)).ok}

\* The number of offending fields of a parsed mapping: a section that is
\* not a mapping is one, and so is each ill-typed field of a section.
SectionBadCount(raw, sec) ==
    IF ~HasKey(raw, sec) THEN 0
    ELSE IF Get(raw, sec).t # "obj" THEN 1
    ELSE Cardinality(BadFields(sec, Get(raw, sec)))

BadFieldCount(raw) ==
    SectionBadCount(raw, "decision") + SectionBadCount(raw, "rationale")
    + SectionBadCount(raw, "recommendations") + SectionBadCount(raw, "hiring_manager_notes")
    + SectionBadCount(raw, "next_steps")

\* The record in which only the offending fields take their defaults.
KeptField(sec, v, k) ==
    IF HasKey(v, k) /\ Checked(FieldTypes[sec][k], Get(v, k)).ok
    THEN (IF k = "confidence_score"
          THEN Clamp(0, 100, Checked("int", Get(v, k)).val)
          ELSE Checked(FieldTypes[sec][k], Get(v, k)).val)
    ELSE SectionDefaults[sec][k]

KeptSection(raw, sec) ==
    IF ~HasKey(raw, sec) \/ Get(raw, sec).t # "obj" THEN SectionDefaults[sec]
    ELSE [k \in DOMAIN FieldTypes[sec] |-> KeptField(sec, Get(raw, sec), k)]

FieldwiseDefaulted(raw) == [sec \in DOMAIN FieldTypes |-> KeptSection(raw, sec)]

ParsedMapping(text) == IsJson(text) /\ JsonLoads(text).val.t = "obj"

\* C3: when the completion parses to a mapping in which exactly one field
\* violates the DecisionFeedback schema, generate_decision returns the
\* record that keeps every other parsed field and has the default only in
\* the place of the offending one.
C3_OneBadFieldKeepsTheRest ==
    /\ agent = "generate_decision" /\ pc = "returned" /\ llm.kind = "text"
    /\ ParsedMapping(llm.text) /\ BadFieldCount(JsonLoads(llm.text).val) = 1
    => result = FieldwiseDefaulted(JsonLoads(llm.text).val)

\* The returns of match_job on which the model output is given up.
GiveUpPaths ==
    {"exception", "cleaning_error", "json_error", "validation_error", "transform_error",
     "default_json", "default_analysis"}

\* C4: every return of match_job that gives up on the model output yields
\* the record of create_default_analysis, whichever failure led to it.
C4_OneDefaultOnEveryGiveUp ==
    agent = "match_job" /\ pc = "returned" /\ path \in GiveUpPaths
        => result = create_default_analysis

QuotedScore == "\"92\""

\* C5: a score supplied as the numeric string "92" is stored as the number
\* 92 would be, for match_score and for every section score, and the rest
\* of the record is what it would be with the number.
C5_NumericStringScoreCoerced ==
    /\ agent = "match_job" /\ pc = "returned" /\ llm.kind = "text"
    /\ IsJson(llm.text) /\ Contains(llm.text, QuotedScore)
    => result = match_job(Completion(ReplaceStr(llm.text, QuotedScore, "92"))).rec

\* The largest magnitude of the scores the validators are applied to.
MaxScoreInput == 200

\* raw[section][key] of a parsed completion, or null when there is none.
Supplied(text, section, key) ==
    IF ParsedMapping(text) /\ HasKey(JsonLoads(text).val, section)
       /\ Get(JsonLoads(text).val, section).t = "obj"
       /\ HasKey(Get(JsonLoads(text).val, section), key)
    THEN Get(Get(JsonLoads(text).val, section), key)
    ELSE JLit("null")

SuppliedConfidence == Supplied(llm.text, "decision", "confidence_score")

\* raw["match_score"] of a parsed completion, or null.
SuppliedMatchScore ==
    IF ParsedMapping(llm.text) /\ HasKey(JsonLoads(llm.text).val, "match_score")
    THEN Get(JsonLoads(llm.text).val, "match_score") ELSE JLit("null")

\* raw["analysis"][name]["score"] of a parsed completion, or null.
SuppliedSectionScore(name) ==
    IF Supplied(llm.text, "analysis", name).t = "obj"
       /\ HasKey(Supplied(llm.text, "analysis", name), "score")
    THEN Get(Supplied(llm.text, "analysis", name), "score") ELSE JLit("null")

MatchScores(r) ==
    {r.overall_match_score, r.skills_match.score, r.experience_match.score,
     r.education_match.score}

\* C6: the validators clamp and never reject: each maps every integer into
\* its range, a supplied integer is stored clamped, and every
\* DecisionFeedback and MatchAnalysis record returned has confidence_score
\* in 0..100 and its scores in [0, 1] (0..100 hundredths).
C6_ValidatorsClamp ==
    /\ \A v \in (0 - MaxScoreInput)..MaxScoreInput :
           /\ validate_confidence(v) = Clamp(0, 100, v)
           /\ validate_score(v) = Clamp(0, 100, v)
           /\ validate_overall_score(v) = Clamp(0, 100, v)
    /\ pc = "returned" /\ agent = "generate_decision"
           => InRange(result.decision.confidence_score, 0, 100)
    /\ pc = "returned" /\ agent = "match_job"
           => \A x \in MatchScores(result) : InRange(x, 0, 100)
    /\ pc = "returned" /\ agent = "generate_decision" /\ path = "parsed"
       /\ SuppliedConfidence.t = "num"
           => result.decision.confidence_score = Clamp(0, 100, SuppliedConfidence.n)
    /\ pc = "returned" /\ agent = "match_job" /\ path = "as_received"
       /\ SuppliedMatchScore.t = "num"
           => result.overall_match_score = Clamp(0, 100, SuppliedMatchScore.n)
    /\ pc = "returned" /\ agent = "match_job" /\ path = "as_received"
           => /\ SuppliedSectionScore("skills").t = "num"
                  => result.skills_match.score
                         = Clamp(0, 100, SuppliedSectionScore("skills").n)
              /\ SuppliedSectionScore("experience").t = "num"
                  => result.experience_match.score
                         = Clamp(0, 100, SuppliedSectionScore("experience").n)
              /\ SuppliedSectionScore("education").t = "num"
                  => result.education_match.score
                         = Clamp(0, 100, SuppliedSectionScore("education").n)

\* A confidence_score of 150 was accepted and stored as 100.
C6_Witness ==
    /\ pc = "returned" /\ agent = "generate_decision" /\ path = "parsed"
    /\ SuppliedConfidence = JNum(150) /\ result.decision.confidence_score = 100

\* The returns on which an orchestrator hands out the record of its
\* default builder.
BuilderPaths(a) ==
    CASE a = "parse_resume" -> {"empty_input", "exception"}
      [] a = "match_job" -> {"default_analysis"}
      [] a = "generate_decision" ->
             {"api_error", "clean_failed", "validation_failed", "exception"}

DefaultRecord(a) ==
    CASE a = "parse_resume" -> create_empty_structure
      [] a = "match_job" -> create_default_analysis
      [] a = "generate_decision" -> create_default_decision

\* C7: the record of each default builder has every field of its schema
\* populated with a value of the declared type and every range holds, and
\* that is the record returned wherever the builder is called.
C7_DefaultsPopulatedInRange ==
    /\ \A a \in Orchestrators : SchemaValid(a, DefaultRecord(a))
    /\ pc = "returned" /\ agent \in Orchestrators /\ path \in BuilderPaths(agent)
           => result = DefaultRecord(agent) /\ SchemaValid(agent, result)

\* parse_resume has returned the record of create_empty_structure for a
\* blank resume.
C7_Witness ==
    /\ pc = "returned" /\ agent = "parse_resume" /\ path = "empty_input"
    /\ result = create_empty_structure

\* C9: an invocation of an orchestrator issues at most one LLM request,
\* and exactly one has been issued when it returns after a response,
\* whichever path of cleaning, repair or fallback it took.
C9_AtMostOneRequest ==
    /\ requests <= 1
    /\ pc = "returned" /\ agent \in Orchestrators /\ path # "empty_input" => requests = 1

\* generate_decision has returned its fallback after the cleaning failed,
\* with one request made.
C9_Witness ==
    /\ pc = "returned" /\ agent = "generate_decision" /\ path = "clean_failed"
    /\ requests = 1

InFlight == {k \in DOMAIN tasks : tasks[k] = "in_flight"}

\* C10: at most 2 question-generation calls are in flight; a call of a
\* batch starts only when every call of the batches before it is settled;
\* and the calls of a type start only when every call of the type before
\* it is settled (coding, system design, behavioral).
C10_BatchesOfTwoInOrder ==
    /\ Cardinality(InFlight) <= 2
    /\ \A t \in {"coding", "system_design", "behavioral"} :
           started[t] <= 2 * (settled[t] \div 2) + 2
    /\ started["system_design"] > 0 => settled["coding"] = CodingQuestions
    /\ started["behavioral"] > 0 => settled["system_design"] = SystemDesignQuestions
    /\ phase \in {"assemble", "done"} => settled["behavioral"] = BehavioralQuestions

\* Both calls of the second batch of system design questions are in
\* flight.
C10_Witness ==
    /\ phase = "system_design" /\ batch_start = 2 /\ Cardinality(InFlight) = 2
    /\ settled["coding"] = CodingQuestions /\ settled["system_design"] = 2

\* A step failed with an error: an exception reached a handler.
StageFailed == cli_error

\* C11: the command-line tool ends with exit code 0 when every requested
\* stage succeeded and with exit code 1 when a stage failed with an error.
C11_ExitCodeTellsFailure ==
    cli_pc = At_("exited", "none") /\ cli_exit # 2
        => cli_exit = (IF StageFailed THEN 1 ELSE 0)

\* C12: with --job and --output and no failure of a file or an agent, the
\* three artifacts are written in the order parsed resume, match analysis,
\* decision, each stage starting after the artifact before it is written,
\* and all three exist when the run ends.
C12_ThreeArtifactsInOrder ==
    cli_job /\ cli_out /\ cli_fail = NoFailure
        => /\ cli_pc.stage = "match" => cli_files["resume"] = "written"
           /\ cli_pc.stage = "decision" => cli_files["match"] = "written"
           /\ cli_files["match"] # "absent" => cli_files["resume"] = "written"
           /\ cli_files["decision"] # "absent" => cli_files["match"] = "written"
           /\ cli_pc = At_("exited", "none") /\ cli_exit # 2
                  => \A a \in Stages : cli_files[a] = "written"

\* The call of the routine has ended, by a return or by a raise.
Ended(routine) == iv_routine = routine /\ iv_pc \in {"returned", "raised"}

\* C13: the fence cleanup of _parse_questions_response and of
\* parse_markdown unwraps a reply enclosed in a bare fence to the payload
\* enclosed: a payload that is JSON is parsed and gives what the payload
\* gives without a fence.
C13_BareFenceUnwrapped ==
    \A p \in QuestionPayloads \cup MarkdownPayloads :
        iv_input = Completion(BareFenced(p)) /\ IsJson(p)
            => /\ Ended("parse_questions") => iv_result = QuestionsOfData(JsonLoads(p))
               /\ Ended("parse_markdown")
                      => [exc |-> iv_exc, rec |-> iv_result] = ParseMarkdownLoaded(JsonLoads(p))

\* C14: parse_markdown raises json.JSONDecodeError, after exactly one
\* invocation of the model, when the reply is a text that is not JSON after
\* the fence cleanup; it returns no record.
C14_InvalidJsonRaisesAfterOneCall ==
    Ended("parse_markdown") /\ iv_input.kind = "text" /\ ~IsJson(FenceCleanup(iv_input.text))
        => /\ iv_pc = "raised" /\ iv_exc = "JSONDecodeError"
           /\ iv_result = NoRecord
           /\ iv_calls = <<Invocation("parse", 0)>>

\* parse_markdown has raised for a reply that is prose.
C14_Witness ==
    /\ Ended("parse_markdown") /\ iv_input = Completion("I could not parse this.")
    /\ iv_exc = "JSONDecodeError"

\* What _parse_questions_response is to return for a payload.
ExpectedQuestions(payload) ==
    IF ~IsJson(payload) THEN JArr(<<>>)
    ELSE LET data == JsonLoads(payload).val
         IN  CASE data.t = "arr" -> data
               [] data.t = "obj" /\ HasKey(data, "questions") -> Get(data, "questions")
               [] OTHER -> JArr(<<data>>)

\* C15: _parse_questions_response never raises; for a payload, bare or in
\* a json fence, it returns the list of a JSON array, the questions member
\* of a JSON object that has one, a one-element list of any other JSON
\* value, and the empty list when the payload is not JSON.
C15_ParseQuestionsByPayloadKind ==
    iv_routine = "parse_questions" /\ iv_pc # "idle"
        => /\ iv_pc = "returned" /\ iv_exc = "none"
           /\ \A p \in QuestionPayloads :
                  iv_input.text \in {p, Fenced(p)} => iv_result = ExpectedQuestions(p)

\* A scalar payload in no fence came back as a one-element list, and a
\* fenced array as the array.
C15_Witness ==
    /\ iv_routine = "parse_questions" /\ iv_pc = "returned"
    /\ \/ iv_input.text = "7" /\ iv_result = JArr(<<JNum(7)>>)
       \/ iv_input.text = Fenced(ListOf(QuestionScore90)) /\ Len(iv_result.a) = 1

\* The generators generate_interview_guide is to invoke for a level.
ExpectedGenerators(experience_level) ==
    <<"technical", "coding">>
        \o (IF Lower(experience_level) \in {"mid", "senior"} THEN <<"system_design">>
            ELSE <<>>)
        \o <<"behavioral">>

\* The invocations whose generator returned at least one question.
Productive == SelectSeq(iv_calls, LAMBDA c : c.returned > 0)

\* C16: generate_interview_guide invokes the generators in the order
\* technical, coding, system design, behavioral, each at most once, the
\* system design generator exactly when the lower-cased experience level
\* is mid or senior; the sections are, in that order, those of the
\* generators that returned at least one question.
C16_GeneratorsAndSectionsInOrder ==
    iv_routine = "guide"
        => /\ Len(iv_calls) <= Len(ExpectedGenerators(iv_level))
           /\ \A i \in 1..Len(iv_calls) : iv_calls[i].by = ExpectedGenerators(iv_level)[i]
           /\ iv_pc \in {"assemble", "returned"}
                  => Len(iv_calls) = Len(ExpectedGenerators(iv_level))
           /\ Len(iv_sections) = Len(Productive)
           /\ \A i \in 1..Len(iv_sections) :
                  iv_sections[i].name = SectionNames[Productive[i].by]
           /\ iv_pc = "returned" => iv_result.sections = iv_sections

\* A guide for a level written Mid has the system design section between
\* the technical and the behavioral one, the coding generator having
\* returned nothing.
C16_Witness ==
    /\ iv_routine = "guide" /\ iv_pc = "returned" /\ iv_level = "Mid"
    /\ Len(iv_calls) = 4 /\ iv_calls[2].returned = 0
    /\ Len(iv_result.sections) = 3
    /\ iv_result.sections[2].name = "System Design"

\* Every question of every section of the guide has a score of 0 or more.
ScoresNonNegative(secs) ==
    \A i \in 1..Len(secs) : \A j \in 1..Len(secs[i].questions) :
        secs[i].questions[j].score >= 0

\* C17: in a returned guide a section's total_score is the sum of its
\* questions' scores and its passing_score is int(0.7 x total), the
\* truncated double product; the guide's total_score and passing_score are
\* the sums of the sections'; passing_score <= total_score when no score
\* is negative.
C17_ScoresOfGuide ==
    iv_routine = "guide" /\ iv_pc = "returned"
        => /\ \A i \in 1..Len(iv_result.sections) :
                  LET sec == iv_result.sections[i]
                  IN  /\ sec.total_score = SumScores(sec.questions)
                      /\ sec.passing_score = PassingScore(sec.total_score)
                      /\ sec.total_score >= 0
                             => /\ 10 * sec.passing_score <= 7 * sec.total_score
                                /\ 7 * sec.total_score < 10 * (sec.passing_score + 2)
           /\ iv_result.total_score = SumTotals(iv_result.sections)
           /\ iv_result.passing_score = SumPassing(iv_result.sections)
           /\ ScoresNonNegative(iv_result.sections)
                  => iv_result.passing_score <= iv_result.total_score

\* A guide of two sections with totals 35 and 25: passing 24 + 17 = 41,
\* where 70 percent of the grand total 60 is 42.
C17_Witness ==
    /\ iv_routine = "guide" /\ iv_pc = "returned"
    /\ Len(iv_result.sections) = 2
    /\ iv_result.total_score = 60 /\ iv_result.passing_score = 41

\* C18: every AssessmentResult that evaluate_assessment produces has
\* 0 <= score <= 100, 0 <= technical_rating <= 1 and
\* 0 <= passion_rating <= 1 (ratings in hundredths).
C18_ResultWithinRanges ==
    ev_pc = "returned"
        => /\ 0 <= ev_result.score /\ ev_result.score <= 100
           /\ 0 <= ev_result.technical_rating /\ ev_result.technical_rating <= 100
           /\ 0 <= ev_result.passion_rating /\ ev_result.passion_rating <= 100

\* C20: every CodingQuestion that _create_coding_question produces has
\* exactly 4 options and a correct_option that indexes one of them,
\* 0 <= correct_option <= 3.
C20_CorrectOptionIndexesOptions ==
    cq_pc = "returned"
        => /\ Len(cq_result.rec.options) = 4
           /\ cq_result.rec.correct_option \in 0..(Len(cq_result.rec.options) - 1)

\* ASSESSMENT_CONFIG: the numbers of questions per level and type.
Configured ==
    [lv \in {"junior", "mid", "senior"} |->
        [coding |-> 5, system_design |-> 5, behavioral |-> 5]]

\* The level generate_assessment is to work with for the level requested.
EffectiveLevel == IF requested \in {"junior", "mid", "senior"} THEN requested ELSE "mid"

\* The questions of every type are as many as configured.
CountsAsConfigured ==
    /\ level = EffectiveLevel
    /\ \A t \in DOMAIN questions : Len(questions[t]) <= Configured[EffectiveLevel][t]
    /\ phase \in {"assemble", "done"}
           => \A t \in DOMAIN questions : Len(questions[t]) = Configured[EffectiveLevel][t]

\* A step that appends questions appends, for the type at work, one per
\* task of the batch at the position of the task: the fallback question
\* for a task that failed.
AppendsInPlace ==
    questions' # questions /\ phase # "done"
        => /\ \A t \in DOMAIN questions : t # phase => questions'[t] = questions[t]
           /\ Len(questions[phase]) = batch_start
           /\ SubSeq(questions'[phase], 1, batch_start) = questions[phase]
           /\ Len(questions'[phase])
                  = batch_start + Cardinality({k \in DOMAIN tasks : tasks[k] # "none"})
           /\ \A k \in DOMAIN tasks :
                  tasks[k] # "none"
                      => /\ batch_start + k <= Len(questions'[phase])
                         /\ questions'[phase][batch_start + k]
                                = (IF tasks[k] = "failed" THEN "fallback" ELSE tasks[k])

ConfiguredPercentage(experience_level) ==
    CASE experience_level = "junior" -> 65
      [] experience_level = "mid" -> 70
      [] experience_level = "senior" -> 75
      [] OTHER -> 70

\* The questions visited so far that had an answer.
Answered == {i \in 1..Len(ev_answered) : ev_answered[i]}

C21_PreviewCallsNoClient ==
    jd_config.preview
        => /\ jd_client_calls = <<>>
           /\ jd_posts > 0
                  => /\ Len(jd_state.posting_results) = Len(Platforms)
                     /\ \A i \in 1..Len(Platforms) :
                            /\ jd_state.posting_results[i].platform = Platforms[i]
                            /\ jd_state.posting_results[i].success
                            /\ StartsWith(jd_state.posting_results[i].message,
                                          "PREVIEW MODE:")

\* A job posted in preview mode with Twitter and Google Jobs enabled.
C21_Witness ==
    /\ jd_config.preview /\ jd_posts = 1
    /\ jd_config.enabled = {"twitter", "google_jobs"}
    /\ jd_state.posting_results[1].message
           = "PREVIEW MODE: Would tweet: " \o DQ
             \o "We're hiring!  - Pune. Apply now! #JobOpening #Hiring #Careers" \o DQ

\* The moves of the status run_workflow makes.
StatusMoves ==
    {<<"none", "started">>, <<"started", "input_invalid">>,
     <<"started", "input_valid">>, <<"input_valid", "jd_generated">>,
     <<"jd_generated", "completed">>, <<"input_valid", "error">>,
     <<"jd_generated", "error">>}

WorkflowStateSound ==
    /\ jd_pc = "returned"
           => jd_state.status \in {"input_invalid", "error", "completed"}
    /\ jd_state.status = "input_invalid"
           => /\ jd_state.errors # <<>>
              /\ jd_state.job_description = ""
              /\ jd_state.posting_results = <<>>
              /\ jd_llm_calls = 0 /\ jd_posts = 0 /\ jd_client_calls = <<>>
    /\ jd_state.status = "completed" => jd_state.errors = <<>>
    /\ jd_posts > 0 => jd_state.job_description # ""

WorkflowStep ==
    /\ jd_state'.status # jd_state.status
           => <<jd_state.status, jd_state'.status>> \in StatusMoves
    /\ jd_posts' # jd_posts => jd_state.status = "jd_generated"
    /\ jd_llm_calls' # jd_llm_calls => jd_state.status = "input_valid"

\* C27: the status of run_workflow moves only started -> input_invalid, or
\* started -> input_valid -> jd_generated -> completed, with error entered
\* only from input_valid or jd_generated; a returned state has the status
\* input_invalid, error or completed; on input_invalid the errors are not
\* empty, job_description and posting_results are empty and there was no
\* LLM call and no posting; posting happens only after a job description
\* was generated; completed implies an empty errors list.
C27_StatusMovesAndReturnedStates == []WorkflowStateSound /\ [][WorkflowStep]_vars

\* A run that completed, and a job description that was posted.
C27_Witness ==
    /\ jd_pc = "returned" /\ jd_state.status = "completed"
    /\ jd_posts = 1 /\ jd_llm_calls = 6 /\ jd_state.errors = <<>>

\* C28: when a completion call of the generation fails, the provider
\* raising inside _get_completion, run_workflow ends with status error and
\* a "JD Generation Error" entry in errors and posts nothing; a completed
\* state never has a job description assembled from failed completions.
C28_FailedCompletionEndsInError ==
    /\ (jd_pc = "returned" /\ jd_failures # {})
           => /\ jd_state.status = "error"
              /\ \E i \in 1..Len(jd_state.errors) :
                     StartsWith(jd_state.errors[i], "JD Generation Error")
              /\ jd_posts = 0
    /\ jd_state.status = "completed" => jd_failures = {}

\* The return statements of generate_decision that fall back: the API
\* error, the text that does not parse after cleaning, the JSON the schema
\* rejects, and the outer handler.
FallbackPaths == {"api_error", "clean_failed", "validation_failed", "exception"}

\* C29: whenever generate_decision falls back, the DecisionFeedback it
\* returns has decision.status = HOLD and confidence_score = 30, never
\* PROCEED or REJECT.
C29_FallbackHoldsAtThirty ==
    (agent = "generate_decision" /\ pc = "returned" /\ path \in FallbackPaths)
        => /\ result.decision.status = "HOLD"
           /\ result.decision.confidence_score = 30
           /\ result = create_default_decision

\* A completion that is JSON after cleaning and that the schema rejects.
C29_Witness ==
    /\ agent = "generate_decision" /\ pc = "returned"
    /\ path = "validation_failed" /\ result.decision.status = "HOLD"

\* The score of a section of the record that was returned as text.
SectionScoreOf(text, name) ==
    Get(Get(Get(JsonLoads(text).val, "analysis"), name), "score")

\* The score a field has when it is found by its pattern, or else its own
\* default.
FoundOrDefault(digits, default) == JNum(IF digits = "" THEN default ELSE IntOf(digits))

\* The text the salvage of clean_json_response searches.
SalvageText == BasicFixes(StripFence(input))

\* C24: in the score salvage of the job matching every score field found by
\* its pattern is used, and every score field that is not found takes its
\* own fixed default, whatever was found for the other fields.
C24_UnfoundScoreTakesOwnDefault ==
    /\ \A t \in Completions :
           LET scores == extract_valid_json_scores(t)
           IN  /\ JNum(scores.match_score)
                      = FoundOrDefault(SearchMatchScore(t), DefaultMatchScore)
               /\ JNum(scores.skills_score)
                      = FoundOrDefault(SearchSectionScore(t, "skills"), DefaultSkillsScore)
    /\ (agent = "match_clean" /\ pc = "returned" /\ path = "salvaged")
           => /\ Get(JsonLoads(cleaned).val, "match_score")
                     = FoundOrDefault(SearchMatchScore(SalvageText), DefaultMatchScore)
              /\ SectionScoreOf(cleaned, "skills")
                     = FoundOrDefault(SearchSectionScore(SalvageText, "skills"),
                                      DefaultSkillsScore)
              /\ SectionScoreOf(cleaned, "experience")
                     = FoundOrDefault(SearchSectionScore(SalvageText, "experience"),
                                      DefaultExperienceScore)
              /\ SectionScoreOf(cleaned, "education")
                     = FoundOrDefault(SearchSectionScore(SalvageText, "education"),
                                      DefaultEducationScore)

\* C26: the text JobMatchingAgent.clean_json_response returns parses as
\* JSON, so that cleaning it again returns it unchanged, and match_job never
\* returns from its JSONDecodeError handler.
C26_MatchCleanReturnsJson ==
    /\ (agent = "match_clean" /\ pc = "returned")
           => IsJson(cleaned) /\ MatchClean(cleaned) = cleaned
    /\ (agent = "match_job" /\ pc = "returned") => path # "json_error"

\* A text that no repair made parse, answered with the default record.
C26_Witness ==
    /\ agent = "match_clean" /\ pc = "returned" /\ path = "default_json"
    /\ ~IsJson(input) /\ cleaned = DefaultJson

\* The schema defaults of PersonalInfo.name and PersonalInfo.email.
NameDefault == "Name not provided"

EmailDefault == "Email not provided"

\* C25: in the record convert_template_to_json returns, and in the empty
\* fallback of parse_resume, a name, an email or a summary for which no
\* value was found, or only a placeholder, is the schema default
\* ("Name not provided", "Email not provided", "Resume summary pending"),
\* never an empty value.
C25_UnfoundFieldsTakeSchemaDefault ==
    (agent = "parse_resume" /\ pc = "returned")
        => /\ result.personal_info.name # ""
           /\ result.personal_info.email # ""
           /\ result.summary # <<"">>
           /\ path = "converted"
                  => /\ Extracted(LabelValue(llm.text, "name:"),
                                  "[Full name of the candidate]") = ""
                            => result.personal_info.name = NameDefault
                     /\ Extracted(LabelValue(llm.text, "email:"), "[Email address]") = ""
                            => result.personal_info.email = EmailDefault
                     /\ Extracted(SummaryValue(llm.text),
                                  "[Brief professional summary]") = ""
                            => result.summary = SummaryDefault
           /\ path # "converted"
                  => /\ result.personal_info.name = NameDefault
                     /\ result.personal_info.email = EmailDefault
                     /\ result.summary = SummaryDefault

\* The text after the fence removal, and after each of the first repairs
\* applied alone and in the order of the source.
Stripped == StripFence(input)

KeysQuoted == QuoteKeys(Stripped)

QuotesNormalised == ReplaceCh(KeysQuoted, SQ, DQ)

PositionPatched == StructuralErrFix(BasicFixes(Stripped), JsonLoads(BasicFixes(Stripped)))

\* C22: DecisionFeedbackAgent.clean_json_response applies its repairs in a
\* fixed order (bare keys quoted, single quotes made double, trailing
\* commas removed, the comma inserted at the position of the parser, the
\* unterminated string closed), parses again after each single repair and
\* returns the text of the first parse that succeeds.
C22_ParseAfterEachRepair ==
    (agent = "decision_clean" /\ pc = "returned" /\ ~IsJson(Stripped))
        => /\ IsJson(KeysQuoted) => cleaned = KeysQuoted
           /\ (~IsJson(KeysQuoted) /\ IsJson(QuotesNormalised))
                  => cleaned = QuotesNormalised
           /\ (~IsJson(BasicFixes(Stripped)) /\ IsJson(PositionPatched))
                  => cleaned = PositionPatched

\* The statements of clean_json_response compute what DecisionClean does.
CleanAgrees == dc_pc = "returned" => dc_result = DecisionClean(dc_input)

\* The order of the statements of clean_json_response in its text.
StatementOrder ==
    [p \in Running \cup {"idle", "returned"} |->
        CASE p = "idle" -> 0
          [] p = "stripped" -> 1
          [] p = "fixed" -> 2
          [] p = "structural" -> 3
          [] p = "lines" -> 4
          [] p = "delimiter" -> 5
          [] p = "returned" -> 6]

\* A step of a running call stands later in the text than the one before.
ForwardStep == dc_pc \in Running => (StatementOrder[dc_pc'] > StatementOrder[dc_pc])

\* C23: on every input clean_json_response, fix_decision_delimiter_error
\* included, terminates, and within one call a comma is inserted at the
\* position of a parse error at most 3 times: every step of a call moves
\* forward in the text of the routine, and a call that started returns.
C23_CleanTerminatesFewInsertions ==
    /\ [](dc_inserts <= 3)
    /\ [][ForwardStep]_vars
    /\ (dc_pc = "stripped") ~> (dc_pc = "returned")

\* A call that inserted a comma at the position of the error, went through
\* the delimiter fix and returned.
C23_Witness ==
    /\ dc_pc = "returned" /\ dc_inserts = 1
    /\ ~IsJson(dc_result)

=============================================================================
